---- MODULE Spec2Model ----
(***************************************************************************)
(* Transaction pool of fuel-core (crates/services/txpool_v2): the Pool     *)
(* orchestrator of pool.rs and the tip/gas selection algorithm of          *)
(* selection_algorithms/ratio_tip_gas.rs, over a dependency-graph storage  *)
(* and a collision manager.                                                *)
(***************************************************************************)
EXTENDS Integers, Sequences, FiniteSets, TLC

\* Bound of the model: the largest creation instant the clock hands out.
MaxInstant == 5

(***************************************************************************)
(* Transactions.  A UTXO id is <<producer tx id, output index>>; producer  *)
(* 0 stands for coins that exist on chain only.                            *)
(***************************************************************************)
Coin(n) == <<0, n>>

Out(producer, n) == <<producer, n>>

PoolTransaction(id, tip, max_gas, bytes, inputs, blob_id, owner) ==
    [id |-> id, tip |-> tip, max_gas |-> max_gas, metered_bytes_size |-> bytes,
     inputs |-> inputs, blob_id |-> blob_id, owner |-> owner]

\* The candidate transactions submitted to the pool (blob_id 0: not a Blob).
TxUniverse ==
    << PoolTransaction(1, 10, 1, 1, {Coin(1)}, 0, "alice"),
       PoolTransaction(2, 4, 4, 1, {Coin(2)}, 0, "alice"),
       PoolTransaction(3, 6, 3, 1, {Out(1, 0), Out(2, 0)}, 0, "alice"),
       PoolTransaction(4, 18, 9, 2, {Coin(1), Coin(2)}, 0, "alice"),
       PoolTransaction(5, 4, 2, 1, {Coin(3)}, 1, "alice"),
       PoolTransaction(6, 3, 2, 1, {Out(1, 1)}, 0, "alice"),
       PoolTransaction(7, 9, 1, 1, {Coin(3)}, 1, "mallory") >>

TxIds == DOMAIN TxUniverse

\* Transactions that form a graph in which a descendant is reachable through
\* several paths: 3 spends outputs of 1 and of its child 2, 4 outputs of 2
\* and of 3; 5 spends the coin 3 spends and pays more; 6 is a well-paying
\* root; 7 is a root that no block has the gas for and 8 a well-paying child
\* of 1 and 7.
GraphUniverse ==
    << PoolTransaction(1, 2, 1, 1, {Coin(1)}, 0, "alice"),
       PoolTransaction(2, 2, 1, 1, {Out(1, 0)}, 0, "alice"),
       PoolTransaction(3, 2, 1, 1, {Out(1, 1), Out(2, 0), Coin(3)}, 0, "alice"),
       PoolTransaction(4, 2, 1, 1, {Out(2, 1), Out(3, 0)}, 0, "alice"),
       PoolTransaction(5, 9, 1, 1, {Coin(3)}, 0, "alice"),
       PoolTransaction(6, 9, 1, 1, {Coin(2)}, 0, "alice"),
       PoolTransaction(7, 1, 5, 1, {Coin(2)}, 0, "alice"),
       PoolTransaction(8, 5, 1, 1, {Out(1, 2), Out(7, 0)}, 0, "alice") >>

\* Config of the pool (config.pool_limits, max_block_gas, utxo_validation,
\* black_list, ttl in instants).
Config ==
    [pool_limits |-> [max_gas |-> 10, max_bytes_size |-> 4, max_txs |-> 4],
     max_block_gas |-> 4,
     utxo_validation |-> TRUE,
     black_list |-> {"mallory"},
     ttl |-> 1]

\* The snapshots latest_view() can hand out: ok = FALSE is a failing
\* provider, coins the unspent on-chain coins, blobs the stored blob ids,
\* blob_exist_ok = FALSE a view whose blob_exist lookup fails.
Views ==
    { [ok |-> TRUE,  coins |-> {Coin(1), Coin(2), Coin(3)}, blobs |-> {},
       blob_exist_ok |-> TRUE],
      [ok |-> TRUE,  coins |-> {Coin(1), Coin(3)},          blobs |-> {1},
       blob_exist_ok |-> TRUE],
      [ok |-> TRUE,  coins |-> {Coin(1), Coin(2), Coin(3)}, blobs |-> {},
       blob_exist_ok |-> FALSE],
      [ok |-> FALSE, coins |-> {},                          blobs |-> {},
       blob_exist_ok |-> TRUE] }

(***************************************************************************)
(* Generic helpers.                                                        *)
(***************************************************************************)
Range(s) == {s[i] : i \in DOMAIN s}

\* All enumerations of the finite set S without repetition (the orders in
\* which a HashMap may iterate its keys).
SeqsOf(S) ==
    {s \in [1..Cardinality(S) -> S] : Range(s) = S}

RECURSIVE SumOver(_, _)
SumOver(S, f) ==
    IF S = {} THEN 0
    ELSE LET x == CHOOSE y \in S : TRUE IN f[x] + SumOver(S \ {x}, f)

Restrict(f, S) == [x \in S |-> f[x]]

\* F applied to the value of v: v is evaluated once, then F (a `let` that
\* binds a value, where LET binds an expression).
Bind(v, F(_)) == CHOOSE r \in {F(x) : x \in {v}} : TRUE

SaturatingSub(a, b) == IF a >= b THEN a - b ELSE 0

RECURSIVE Gcd(_, _)
Gcd(a, b) == IF b = 0 THEN a ELSE Gcd(b, a % b)

\* The outcome of a Ratio::new that panicked ("denominator == 0"); no
\* ratio in lowest terms has a zero denominator.
RatioPanic == <<0, 0>>

\* num_rational::Ratio::new: the fraction in lowest terms; it panics on a
\* zero denominator.
RatioNew(numer, denom) ==
    IF denom = 0 THEN RatioPanic
    ELSE LET g == Gcd(numer, denom) IN <<numer \div g, denom \div g>>

\* Exact comparison of two ratios by cross-multiplication.
RatioCmp(a, b) ==
    IF a[1] * b[2] < b[1] * a[2] THEN "Less"
    ELSE IF a[1] * b[2] > b[1] * a[2] THEN "Greater"
    ELSE "Equal"

IntCmp(a, b) == IF a < b THEN "Less" ELSE IF a > b THEN "Greater" ELSE "Equal"

(***************************************************************************)
(* Storage: the dependency graph.  A function from StorageIndex to         *)
(* StorageData.                                                            *)
(***************************************************************************)
StorageData(tx, instant, parents) ==
    [transaction |-> tx, creation_instant |-> instant,
     parents |-> parents, children |-> {},
     dependents_cumulative_gas |-> tx.max_gas,
     dependents_cumulative_bytes_size |-> tx.metered_bytes_size,
     dependents_cumulative_tip |-> tx.tip]

EmptyStorage == [i \in {} |-> 0]

count(storage) == Cardinality(DOMAIN storage)

\* The index of the resident that produced utxo, if any.
Producers(storage, utxo) ==
    {i \in DOMAIN storage : storage[i].transaction.id = utxo[1]}

RECURSIVE ReachDown(_, _, _)
ReachDown(storage, frontier, seen) ==
    IF frontier = {} THEN seen
    ELSE LET next == (UNION {storage[i].children : i \in frontier}) \ seen
         IN ReachDown(storage, next \cap DOMAIN storage, seen \cup next)

RECURSIVE ReachUp(_, _, _)
ReachUp(storage, frontier, seen) ==
    IF frontier = {} THEN seen
    ELSE LET next == (UNION {storage[i].parents : i \in frontier}) \ seen
         IN ReachUp(storage, next \cap DOMAIN storage, seen \cup next)

\* Transitive descendants / ancestors of a set of residents (the set itself
\* excluded unless reachable from itself).
Descendants(storage, S) == ReachDown(storage, S \cap DOMAIN storage, {})

Ancestors(storage, S) == ReachUp(storage, S \cap DOMAIN storage, {})

validate_inputs(storage, tx, view, utxo_validation) ==
    IF \A u \in tx.inputs :
          \/ Producers(storage, u) # {}
          \/ ~utxo_validation
          \/ u \in view.coins
    THEN "none"
    ELSE "NotInsertedInputUtxo"

collect_transaction_dependencies(storage, tx) ==
    UNION {Producers(storage, u) : u \in tx.inputs}

\* Storage.can_store_transaction: tx must not depend on a resident that the
\* removal of the colliding subtrees takes away.
storage_can_store_transaction(storage, tx, deps, colliding) ==
    LET going == colliding \cup Descendants(storage, colliding)
    IN  IF (deps \cup Ancestors(storage, deps)) \cap going = {}
        THEN "none" ELSE "NotInsertedCollision"

NewIndex(storage) ==
    CHOOSE n \in 1..(count(storage) + 1) : n \notin DOMAIN storage

\* Mutant of store_transaction: an ancestor is credited once for every
\* parent of tx it is reached from.
store_transaction_PerPath(storage, tx, deps, instant) ==
    IF ~(deps \subseteq DOMAIN storage)
    THEN [err |-> "Storage", storage |-> storage, index |-> 0]
    ELSE
    LET idx  == NewIndex(storage)
        data == StorageData(tx, instant, deps)
        paths(i) == Cardinality({d \in deps : i = d \/ i \in Ancestors(storage, {d})})
        old(i) ==
            LET d == storage[i] IN
            [d EXCEPT
               !.children = IF i \in deps THEN @ \cup {idx} ELSE @,
               !.dependents_cumulative_gas = @ + paths(i) * tx.max_gas,
               !.dependents_cumulative_bytes_size = @ + paths(i) * tx.metered_bytes_size,
               !.dependents_cumulative_tip = @ + paths(i) * tx.tip]
    IN  [err |-> "none",
         storage |-> [i \in DOMAIN storage \cup {idx} |->
                         IF i = idx THEN data ELSE old(i)],
         index |-> idx]

store_transaction(storage, tx, deps, instant) ==
    IF ~(deps \subseteq DOMAIN storage)
    THEN [err |-> "Storage", storage |-> storage, index |-> 0]
    ELSE
    LET idx  == NewIndex(storage)
        up   == deps \cup Ancestors(storage, deps)
        data == StorageData(tx, instant, deps)
        old(i) ==
            LET d == storage[i] IN
            [d EXCEPT
               !.children = IF i \in deps THEN @ \cup {idx} ELSE @,
               !.dependents_cumulative_gas =
                   IF i \in up THEN @ + tx.max_gas ELSE @,
               !.dependents_cumulative_bytes_size =
                   IF i \in up THEN @ + tx.metered_bytes_size ELSE @,
               !.dependents_cumulative_tip =
                   IF i \in up THEN @ + tx.tip ELSE @]
    IN  [err |-> "none",
         storage |-> [i \in DOMAIN storage \cup {idx} |->
                         IF i = idx THEN data ELSE old(i)],
         index |-> idx]

\* The members of `nodes` leaves first (post-order), smallest index first
\* among those whose children are already listed.
RECURSIVE PostOrder(_, _)
PostOrder(storage, nodes) ==
    IF nodes = {} THEN << >>
    ELSE LET leaves == {i \in nodes : storage[i].children \cap nodes = {}}
             n == CHOOSE i \in leaves : \A j \in leaves : i <= j
         IN  <<n>> \o PostOrder(storage, nodes \ {n})

remove_transaction_and_dependents_subtree(storage, root) ==
    IF root \notin DOMAIN storage
    THEN [storage |-> storage, removed |-> << >>]
    ELSE
    LET gone == {root} \cup Descendants(storage, {root})
        kept == DOMAIN storage \ gone
        \* the removed nodes that have i among their ancestors
        below(i) == Descendants(storage, {i}) \cap gone
        gasOf   == [j \in gone |-> storage[j].transaction.max_gas]
        bytesOf == [j \in gone |-> storage[j].transaction.metered_bytes_size]
        tipOf   == [j \in gone |-> storage[j].transaction.tip]
        new(i) ==
            LET d == storage[i] IN
            [d EXCEPT
               !.children = @ \ gone,
               !.dependents_cumulative_gas =
                   SaturatingSub(@, SumOver(below(i), gasOf)),
               !.dependents_cumulative_bytes_size =
                   SaturatingSub(@, SumOver(below(i), bytesOf)),
               !.dependents_cumulative_tip =
                   SaturatingSub(@, SumOver(below(i), tipOf))]
        order == PostOrder(storage, gone)
    IN  [storage |-> [i \in kept |-> new(i)],
         removed |-> [k \in DOMAIN order |-> storage[order[k]].transaction]]

remove_transaction_without_dependencies(storage, index) ==
    IF index \notin DOMAIN storage
    THEN [err |-> "Storage", storage |-> storage]
    ELSE IF storage[index].parents # {}
    THEN [err |-> "Storage", storage |-> storage]
    ELSE [err |-> "none",
          storage |-> [i \in DOMAIN storage \ {index} |->
                          [storage[i] EXCEPT !.parents = @ \ {index}]],
          data |-> storage[index]]

\* The orders in which get_dependents may iterate the children of a node.
DependentOrders == {"ascending", "descending"}

RECURSIVE InOrder(_, _)
InOrder(S, order) ==
    IF S = {} THEN << >>
    ELSE LET x == IF order = "ascending"
                  THEN CHOOSE y \in S : \A z \in S : y <= z
                  ELSE CHOOSE y \in S : \A z \in S : y >= z
         IN  <<x>> \o InOrder(S \ {x}, order)

\* The iterator over the children of index, in the order the storage
\* iterates them.
get_dependents(storage, index, order) == InOrder(storage[index].children, order)

\* Storage ratio order for eviction: ascending cumulative tip/gas, the newer
\* resident first on equal ratios, then the smaller tx id.
WorseRoot(a, b) ==
    LET c == RatioCmp(<<a.dependents_cumulative_tip, a.dependents_cumulative_gas>>,
                      <<b.dependents_cumulative_tip, b.dependents_cumulative_gas>>)
    IN  \/ c = "Less"
        \/ /\ c = "Equal"
           /\ \/ a.creation_instant > b.creation_instant
              \/ /\ a.creation_instant = b.creation_instant
                 /\ a.transaction.id < b.transaction.id

RECURSIVE SortRoots(_, _)
SortRoots(storage, roots) ==
    IF roots = {} THEN << >>
    ELSE LET w == CHOOSE i \in roots :
                    \A j \in roots \ {i} : WorseRoot(storage[i], storage[j])
         IN  <<w>> \o SortRoots(storage, roots \ {w})

get_worst_ratio_tip_gas_subtree_roots(storage) ==
    SortRoots(storage, {i \in DOMAIN storage : storage[i].parents = {}})

(***************************************************************************)
(* CollisionManager: a function from CollisionKey to the StorageIndex that *)
(* occupies it.  A key is <<reason, id>>.                                  *)
(***************************************************************************)
EmptyCollisionManager == [k \in {} |-> 0]

Claims(tx) ==
    {<<"CoinUtxo", u>> : u \in tx.inputs}
        \cup (IF tx.blob_id # 0 THEN {<<"Blob", <<tx.blob_id>> >>} ELSE {})

\* Map from colliding StorageIndex to the reasons of the collision.
collect_colliding_transactions(cm, tx) ==
    LET hit == Claims(tx) \cap DOMAIN cm
    IN  [i \in {cm[k] : k \in hit} |-> {k[1] : k \in {h \in hit : cm[h] = i}}]

cm_can_store_transaction(tx, has_dependencies, colliding, storage) ==
    LET cs   == DOMAIN colliding
        deps == collect_transaction_dependencies(storage, tx)
        up   == deps \cup Ancestors(storage, deps)
    IN  IF cs = {} THEN "none"
        ELSE IF has_dependencies THEN "DependentAndColliding"
        ELSE IF \E c \in cs :
                   \/ c \notin DOMAIN storage
                   \/ tx.tip <= storage[c].dependents_cumulative_tip
             THEN "NotProfitable"
        ELSE IF cs \cap up # {} THEN "WouldBreakDependency"
        ELSE IF \E c \in cs : "Blob" \in colliding[c] THEN "BlobIdAlreadyTaken"
        ELSE "none"

cm_on_stored_transaction(cm, tx, idx) ==
    [k \in DOMAIN cm \cup Claims(tx) |-> IF k \in Claims(tx) THEN idx ELSE cm[k]]

cm_on_removed_transaction(cm, tx) == Restrict(cm, DOMAIN cm \ Claims(tx))

(***************************************************************************)
(* RatioTipGasSelection.                                                   *)
(***************************************************************************)
Key(ratio, creation_instant, tx_id) ==
    [ratio |-> ratio, creation_instant |-> creation_instant, tx_id |-> tx_id]

\* impl Ord for Key
KeyCmp(self, other) ==
    LET cmp == RatioCmp(self.ratio, other.ratio) IN
    IF cmp = "Equal"
    THEN LET instant_cmp == IntCmp(other.creation_instant, self.creation_instant)
         IN  IF instant_cmp = "Equal" THEN IntCmp(self.tx_id, other.tx_id)
             ELSE instant_cmp
    ELSE cmp

EmptySelection ==
    [executable_transactions_sorted_tip_gas_ratio |-> [k \in {} |-> 0],
     tx_id_to_creation_instant |-> [t \in {} |-> 0]]

\* Iteration order of BTreeMap<Reverse<Key>, _>: the greatest Key first.
RECURSIVE SortKeys(_)
SortKeys(keys) ==
    IF keys = {} THEN << >>
    ELSE LET g == CHOOSE k \in keys :
                    \A o \in keys \ {k} : KeyCmp(k, o) = "Greater"
         IN  <<g>> \o SortKeys(keys \ {g})

on_stored_transaction_inner(sel, store_entry) ==
    LET transaction == store_entry.transaction
        key == Key(RatioNew(transaction.tip, transaction.max_gas),
                   store_entry.creation_instant, transaction.id)
        m   == sel.tx_id_to_creation_instant
    IN  [sel |-> [sel EXCEPT !.tx_id_to_creation_instant =
                     [t \in DOMAIN m \cup {transaction.id} |->
                         IF t = transaction.id THEN store_entry.creation_instant
                         ELSE m[t]]],
         key |-> key]

on_removed_transaction_inner(sel, ratio, tx_id) ==
    LET m == sel.tx_id_to_creation_instant
        e == sel.executable_transactions_sorted_tip_gas_ratio
    IN  IF tx_id \in DOMAIN m
        THEN [executable_transactions_sorted_tip_gas_ratio |->
                 Restrict(e, DOMAIN e \ {Key(ratio, m[tx_id], tx_id)}),
              tx_id_to_creation_instant |-> Restrict(m, DOMAIN m \ {tx_id})]
        ELSE sel

new_executable_transaction(sel, storage_id, store_entry) ==
    LET r == on_stored_transaction_inner(sel, store_entry)
        e == r.sel.executable_transactions_sorted_tip_gas_ratio
    IN  [r.sel EXCEPT !.executable_transactions_sorted_tip_gas_ratio =
            [k \in DOMAIN e \cup {r.key} |->
                IF k = r.key THEN storage_id ELSE e[k]]]

sel_on_removed_transaction(sel, transaction) ==
    on_removed_transaction_inner(
        sel, RatioNew(transaction.tip, transaction.max_gas), transaction.id)

\* The body of `for (key, storage_id) in sorted_iter`, from entry i on.
\* acc = [gas_left, best_transactions, transactions_to_remove,
\*        transactions_to_promote]
RECURSIVE GatherPass(_, _, _, _, _, _)
GatherPass(storage, e, keys, i, acc, order) ==
    IF i > Len(keys) THEN acc
    ELSE
    LET key == keys[i]
        storage_id == e[key]
    IN  IF storage_id \notin DOMAIN storage
        THEN Bind([acc EXCEPT !.transactions_to_remove = Append(@, key)],
                  LAMBDA next : GatherPass(storage, e, keys, i + 1, next, order))
        ELSE IF storage[storage_id].transaction.max_gas > acc.gas_left
        THEN GatherPass(storage, e, keys, i + 1, acc, order)
        ELSE Bind([acc EXCEPT
                     !.gas_left =
                         SaturatingSub(@, storage[storage_id].transaction.max_gas),
                     !.best_transactions = Append(@, <<key, storage_id>>),
                     !.transactions_to_promote =
                         @ \o get_dependents(storage, storage_id, order)],
                  LAMBDA next : GatherPass(storage, e, keys, i + 1, next, order))

RECURSIVE RemoveKeys(_, _, _)
RemoveKeys(sel, keys, i) ==
    IF i > Len(keys) THEN sel
    ELSE Bind(on_removed_transaction_inner(sel, keys[i].ratio, keys[i].tx_id),
              LAMBDA s : RemoveKeys(s, keys, i + 1))

\* Mutant of Promote: the children of the selected transactions are not
\* made executable.
Promote_Nothing(sel, storage, promote) == sel

\* Mutant of Promote: only the first element of the Vec is made executable.
Promote_FirstOnly(sel, storage, promote) == IF promote = << >> THEN sel ELSE new_executable_transaction(sel, Head(promote), storage[Head(promote)])

\* `for promote in transactions_to_promote`, in the order of the Vec.
RECURSIVE Promote(_, _, _)
Promote(sel, storage, promote) ==
    IF promote = << >> THEN sel
    ELSE Bind(new_executable_transaction(sel, Head(promote), storage[Head(promote)]),
              LAMBDA s : Promote(s, storage, Tail(promote)))

\* The `while gas_left > 0 && !is_empty()` loop of gather_best_txs.
\* gas_after[k]: gas_left at the end of the pass that selected result[k].
RECURSIVE GatherLoop(_, _, _, _, _, _)
GatherLoop(sel, storage, gas_left, result, gas_after, order) ==
    LET e == sel.executable_transactions_sorted_tip_gas_ratio IN
    IF ~(gas_left > 0 /\ DOMAIN e # {})
    THEN [sel |-> sel, result |-> result, gas_after |-> gas_after]
    ELSE
    Bind(GatherPass(storage, e, SortKeys(DOMAIN e), 1,
             [gas_left |-> gas_left, best_transactions |-> << >>,
              transactions_to_remove |-> << >>,
              transactions_to_promote |-> << >>], order),
         LAMBDA pass :
           Bind(RemoveKeys(sel, pass.transactions_to_remove, 1), LAMBDA sel1 :
             IF pass.best_transactions = << >> /\ pass.transactions_to_promote = << >>
             THEN [sel |-> sel1, result |-> result, gas_after |-> gas_after]
             ELSE
             LET best == pass.best_transactions IN
             Bind(RemoveKeys(sel1, [k \in DOMAIN best |-> best[k][1]], 1),
                  LAMBDA sel2 :
                    Bind(Promote(sel2, storage, pass.transactions_to_promote),
                         LAMBDA sel3 :
                           GatherLoop(sel3, storage, pass.gas_left,
                                      result \o [k \in DOMAIN best |-> best[k][2]],
                                      gas_after \o [k \in DOMAIN best |-> pass.gas_left],
                                      order)))))

\* The condition of the `while` loop of gather_best_txs.
GatherContinues(sel, gas_left) ==
    gas_left > 0 /\ DOMAIN sel.executable_transactions_sorted_tip_gas_ratio # {}

\* Mutant of GatherBody: the loop is not left when a pass selects and
\* promotes nothing.
GatherBody_NoBreak(sel, storage, gas_left, result, order) ==
    LET e == sel.executable_transactions_sorted_tip_gas_ratio IN
    Bind(GatherPass(storage, e, SortKeys(DOMAIN e), 1,
             [gas_left |-> gas_left, best_transactions |-> << >>,
              transactions_to_remove |-> << >>,
              transactions_to_promote |-> << >>], order),
         LAMBDA pass :
           Bind(RemoveKeys(sel, pass.transactions_to_remove, 1), LAMBDA sel1 :
             LET best == pass.best_transactions IN
             Bind(RemoveKeys(sel1, [k \in DOMAIN best |-> best[k][1]], 1),
                  LAMBDA sel2 :
                    [sel |-> Promote(sel2, storage, pass.transactions_to_promote),
                     gas_left |-> pass.gas_left,
                     result |-> result \o [k \in DOMAIN best |-> best[k][2]],
                     break |-> FALSE])))

\* One run of the body of the `while` loop of gather_best_txs; break: the
\* body has left the loop.
GatherBody(sel, storage, gas_left, result, order) ==
    LET e == sel.executable_transactions_sorted_tip_gas_ratio IN
    Bind(GatherPass(storage, e, SortKeys(DOMAIN e), 1,
             [gas_left |-> gas_left, best_transactions |-> << >>,
              transactions_to_remove |-> << >>,
              transactions_to_promote |-> << >>], order),
         LAMBDA pass :
           Bind(RemoveKeys(sel, pass.transactions_to_remove, 1), LAMBDA sel1 :
             IF pass.best_transactions = << >> /\ pass.transactions_to_promote = << >>
             THEN [sel |-> sel1, gas_left |-> pass.gas_left, result |-> result,
                   break |-> TRUE]
             ELSE
             LET best == pass.best_transactions IN
             Bind(RemoveKeys(sel1, [k \in DOMAIN best |-> best[k][1]], 1),
                  LAMBDA sel2 :
                    [sel |-> Promote(sel2, storage, pass.transactions_to_promote),
                     gas_left |-> pass.gas_left,
                     result |-> result \o [k \in DOMAIN best |-> best[k][2]],
                     break |-> FALSE])))

\* Mutant of gather_best_txs: the walk starts with more gas than the
\* constraint allows.
gather_best_txs_LooseGas(sel, max_gas, storage, order) ==
    GatherLoop(sel, storage, max_gas + 1, << >>, << >>, order)

\* order: the order in which storage.get_dependents iterates.
gather_best_txs(sel, max_gas, storage, order) ==
    GatherLoop(sel, storage, max_gas, << >>, << >>, order)

(***************************************************************************)
(* Pool.  `self` is the record of the mutable fields of the pool.          *)
(***************************************************************************)
Pool(storage, collision_manager, selection_algorithm, tx_id_to_storage_id, current_gas, current_bytes_size) ==
    [storage |-> storage, collision_manager |-> collision_manager,
     selection_algorithm |-> selection_algorithm,
     tx_id_to_storage_id |-> tx_id_to_storage_id,
     current_gas |-> current_gas, current_bytes_size |-> current_bytes_size]

\* Pool::new
new ==
    Pool(EmptyStorage, EmptyCollisionManager, EmptySelection,
         [t \in {} |-> 0], 0, 0)

check_blacklisting(black_list, tx) ==
    IF tx.owner \in black_list THEN "Blacklisted" ELSE "none"

\* Mutant of check_blob_does_not_exist: the persistent storage is not
\* asked.
check_blob_does_not_exist_Unchecked(tx, persistent_storage) == "none"

check_blob_does_not_exist(tx, persistent_storage) ==
    IF tx.blob_id = 0 THEN "none"
    ELSE IF ~persistent_storage.blob_exist_ok THEN "Database"
    ELSE IF tx.blob_id \in persistent_storage.blobs
    THEN "NotInsertedBlobIdAlreadyTaken"
    ELSE "none"

\* Mutant of WithinLimits: a total that equals its limit is over it.
WithinLimits_Strict(limits, gas_left, bytes_left, txs_left) == gas_left < limits.max_gas /\ bytes_left < limits.max_bytes_size /\ txs_left < limits.max_txs

WithinLimits(limits, gas_left, bytes_left, txs_left) ==
    /\ gas_left <= limits.max_gas
    /\ bytes_left <= limits.max_bytes_size
    /\ txs_left <= limits.max_txs

\* `for collision in collided_transactions.keys()` of
\* check_pool_size_available, from the i-th key of the iteration on.
\* acc = [err, done, gas_left, bytes_left, txs_left, removed_transactions]
RECURSIVE CreditCollisions(_, _, _, _, _)
CreditCollisions(storage, limits, keys, i, acc) ==
    IF i > Len(keys) THEN acc
    ELSE IF keys[i] \notin DOMAIN storage THEN [acc EXCEPT !.err = "Storage"]
    ELSE
    LET collision_data == storage[keys[i]]
        next == [acc EXCEPT
                   !.gas_left =
                       SaturatingSub(@, collision_data.dependents_cumulative_gas),
                   !.bytes_left =
                       SaturatingSub(@, collision_data.dependents_cumulative_bytes_size),
                   !.txs_left = SaturatingSub(@, 1),
                   !.removed_transactions = Append(@, keys[i])]
    IN  IF WithinLimits(limits, next.gas_left, next.bytes_left, next.txs_left)
        THEN [next EXCEPT !.done = TRUE]
        ELSE CreditCollisions(storage, limits, keys, i + 1, next)

\* The comparison that stops the eviction walk of check_pool_size_available.
StopsEviction(ratio, current_ratio) == RatioCmp(ratio, current_ratio) = "Greater"

\* The `while` loop of check_pool_size_available over the worst subtree
\* roots, from the i-th root on.
RECURSIVE EvictWorst(_, _, _, _, _, _)
EvictWorst(storage, limits, sorted_txs, i, current_ratio, acc) ==
    IF WithinLimits(limits, acc.gas_left, acc.bytes_left, acc.txs_left) THEN acc
    ELSE IF i > Len(sorted_txs) THEN [acc EXCEPT !.err = "NotInsertedLimitHit"]
    ELSE
    LET storage_id == sorted_txs[i]
        storage_data == storage[storage_id]
        ratio == RatioNew(storage_data.dependents_cumulative_tip,
                          storage_data.dependents_cumulative_gas)
    IN  IF StopsEviction(ratio, current_ratio)
        THEN [acc EXCEPT !.err = "NotInsertedLimitHit"]
        ELSE EvictWorst(storage, limits, sorted_txs, i + 1, current_ratio,
                 [acc EXCEPT
                    !.gas_left =
                        SaturatingSub(@, storage_data.dependents_cumulative_gas),
                    !.bytes_left =
                        SaturatingSub(@, storage_data.dependents_cumulative_bytes_size),
                    !.txs_left = SaturatingSub(@, 1),
                    !.removed_transactions = Append(@, storage_id)])

\* Mutant of check_pool_size_available: a transaction with dependencies
\* drives the eviction walk as an executable one does.
check_pool_size_available_DependentEvicts(self, config, tx, keys, dependencies) ==
    LET limits == config.pool_limits
        start  == [err |-> "none", done |-> FALSE,
                   gas_left |-> self.current_gas + tx.max_gas,
                   bytes_left |-> self.current_bytes_size + tx.metered_bytes_size,
                   txs_left |-> count(self.storage) + 1,
                   removed_transactions |-> << >>]
    IN  IF WithinLimits(limits, start.gas_left, start.bytes_left, start.txs_left)
        THEN start
        ELSE
        LET credited == CreditCollisions(self.storage, limits, keys, 1, start)
        IN  IF credited.err # "none" \/ credited.done THEN credited
            ELSE EvictWorst(self.storage, limits,
                            get_worst_ratio_tip_gas_subtree_roots(self.storage), 1,
                            RatioNew(tx.tip, tx.max_gas), credited)

\* keys: collided_transactions.keys() in the order the HashMap iterates.
check_pool_size_available(self, config, tx, keys, dependencies) ==
    LET limits == config.pool_limits
        start  == [err |-> "none", done |-> FALSE,
                   gas_left |-> self.current_gas + tx.max_gas,
                   bytes_left |-> self.current_bytes_size + tx.metered_bytes_size,
                   txs_left |-> count(self.storage) + 1,
                   removed_transactions |-> << >>]
    IN  IF WithinLimits(limits, start.gas_left, start.bytes_left, start.txs_left)
        THEN start
        ELSE
        LET credited == CreditCollisions(self.storage, limits, keys, 1, start)
        IN  IF credited.err # "none" \/ credited.done THEN credited
            ELSE IF dependencies # {}
            THEN [credited EXCEPT !.err = "NotInsertedLimitHit"]
            ELSE EvictWorst(self.storage, limits,
                            get_worst_ratio_tip_gas_subtree_roots(self.storage), 1,
                            RatioNew(tx.tip, tx.max_gas), credited)

\* Removes the subtrees of ids[i..] one after the other.
\* acc = [storage, removed]
RECURSIVE RemoveSubtrees(_, _, _)
RemoveSubtrees(ids, i, acc) ==
    IF i > Len(ids) THEN acc
    ELSE Bind(remove_transaction_and_dependents_subtree(acc.storage, ids[i]),
              LAMBDA r :
                RemoveSubtrees(ids, i + 1,
                    [storage |-> r.storage, removed |-> acc.removed \o r.removed]))

\* Mutant of OnRemoval: the tx_id map keeps the entry of the removed
\* transaction.
OnRemoval_KeepsTxId(self, tx) ==
    [self EXCEPT
       !.collision_manager = cm_on_removed_transaction(@, tx),
       !.selection_algorithm = sel_on_removed_transaction(@, tx),
       !.current_gas = SaturatingSub(@, tx.max_gas),
       !.current_bytes_size = SaturatingSub(@, tx.metered_bytes_size)]

\* Mutant of OnRemoval: the collision manager keeps the claims of the
\* removed transaction.
OnRemoval_KeepsClaims(self, tx) ==
    [self EXCEPT
       !.selection_algorithm = sel_on_removed_transaction(@, tx),
       !.tx_id_to_storage_id = Restrict(@, DOMAIN @ \ {tx.id}),
       !.current_gas = SaturatingSub(@, tx.max_gas),
       !.current_bytes_size = SaturatingSub(@, tx.metered_bytes_size)]

\* The body of the loop of update_components_and_caches_on_removal.
OnRemoval(self, tx) ==
    [self EXCEPT
       !.collision_manager = cm_on_removed_transaction(@, tx),
       !.selection_algorithm = sel_on_removed_transaction(@, tx),
       !.tx_id_to_storage_id = Restrict(@, DOMAIN @ \ {tx.id}),
       !.current_gas = SaturatingSub(@, tx.max_gas),
       !.current_bytes_size = SaturatingSub(@, tx.metered_bytes_size)]

\* Mutant of update_components_and_caches_on_removal: the components are
\* not told about the removed transactions.
update_components_and_caches_on_removal_Skipped(self, removed_transactions, i) ==
    self

RECURSIVE update_components_and_caches_on_removal(_, _, _)
update_components_and_caches_on_removal(self, removed_transactions, i) ==
    IF i > Len(removed_transactions) THEN self
    ELSE Bind(OnRemoval(self, removed_transactions[i]),
              LAMBDA s :
                update_components_and_caches_on_removal(s, removed_transactions, i + 1))

\* What a call of insert leaves behind: the pool, the error ("none": Ok), the
\* removed list, the list check_pool_size_available returned, the indices
\* remove_transaction_and_dependents_subtree was called with, in order, and
\* the colliding residents.
InsertResult(self, err, reason, removed, to_remove, remove_calls, colliding) ==
    [self |-> self, err |-> err, reason |-> reason, removed |-> removed,
     to_remove |-> to_remove, remove_calls |-> remove_calls,
     colliding |-> colliding]

\* The outcome of a call that returns err before it changed anything.
Failed(self, err, reason) ==
    InsertResult(self, err, reason, << >>, << >>, << >>, {})

\* Mutant of Store: the claims of the stored transaction are registered
\* before the components are told about the removed transactions.
Store_ClaimsFirst(self, tx, dependencies, storage, removed_transactions, instant) ==
    Bind(store_transaction(storage, tx, dependencies, instant), LAMBDA st :
      IF st.err # "none"
      THEN [err |-> st.err, self |-> [self EXCEPT !.storage = st.storage]]
      ELSE
      LET storage_id == st.index
          m  == self.tx_id_to_storage_id
          s1 == [self EXCEPT
                   !.storage = st.storage,
                   !.tx_id_to_storage_id =
                       [t \in DOMAIN m \cup {tx.id} |->
                           IF t = tx.id THEN storage_id ELSE m[t]],
                   !.current_gas = @ + tx.max_gas,
                   !.current_bytes_size = @ + tx.metered_bytes_size,
                   !.collision_manager =
                       cm_on_stored_transaction(@, tx, storage_id)]
          s2 == IF dependencies = {}
                THEN [s1 EXCEPT !.selection_algorithm =
                         new_executable_transaction(@, storage_id,
                                                    st.storage[storage_id])]
                ELSE s1
      IN  Bind(s2, LAMBDA s :
            [err |-> "none",
             self |-> update_components_and_caches_on_removal(s, removed_transactions, 1)]))

\* pool.rs 130-143: the new transaction is stored, then the components are
\* told about the removed transactions, then about the stored one.
\* Gives [err, self].
Store(self, tx, dependencies, storage, removed_transactions, instant) ==
    Bind(store_transaction(storage, tx, dependencies, instant), LAMBDA st :
      IF st.err # "none"
      THEN [err |-> st.err, self |-> [self EXCEPT !.storage = st.storage]]
      ELSE
      LET storage_id == st.index
          m  == self.tx_id_to_storage_id
          s1 == [self EXCEPT
                   !.storage = st.storage,
                   !.tx_id_to_storage_id =
                       [t \in DOMAIN m \cup {tx.id} |->
                           IF t = tx.id THEN storage_id ELSE m[t]],
                   !.current_gas = @ + tx.max_gas,
                   !.current_bytes_size = @ + tx.metered_bytes_size]
          s2 == IF dependencies = {}
                THEN [s1 EXCEPT !.selection_algorithm =
                         new_executable_transaction(@, storage_id,
                                                    st.storage[storage_id])]
                ELSE s1
      IN  Bind(s2, LAMBDA s :
            Bind(update_components_and_caches_on_removal(s, removed_transactions, 1),
                 LAMBDA s3 :
                   [err |-> "none",
                    self |-> [s3 EXCEPT !.collision_manager =
                                cm_on_stored_transaction(
                                    @, s3.storage[storage_id].transaction,
                                    storage_id)]])))

\* Mutant of Commit: the removed list holds what the first loop removed
\* only.
Commit_ForgetsCollisions(self, tx, colliding_keys, dependencies, transactions_to_remove, instant) ==
    Bind(RemoveSubtrees(transactions_to_remove, 1,
                        [storage |-> self.storage, removed |-> << >>]),
         LAMBDA r1 :
           Bind(RemoveSubtrees(colliding_keys, 1, r1), LAMBDA r2 :
             Bind(Store(self, tx, dependencies, r2.storage, r2.removed, instant),
                  LAMBDA st :
                    InsertResult(st.self, st.err, "none", r1.removed,
                                 transactions_to_remove,
                                 transactions_to_remove \o colliding_keys,
                                 Range(colliding_keys)))))

\* The part of insert after every check has passed (pool.rs 119-143).
Commit(self, tx, colliding_keys, dependencies, transactions_to_remove, instant) ==
    Bind(RemoveSubtrees(transactions_to_remove, 1,
                        [storage |-> self.storage, removed |-> << >>]),
         LAMBDA r1 :
           Bind(RemoveSubtrees(colliding_keys, 1, r1), LAMBDA r2 :
             Bind(Store(self, tx, dependencies, r2.storage, r2.removed, instant),
                  LAMBDA st :
                    InsertResult(st.self, st.err, "none", r2.removed,
                                 transactions_to_remove,
                                 transactions_to_remove \o colliding_keys,
                                 Range(colliding_keys)))))

\* Mutant of Admit: the colliding subtrees leave the storage before the
\* capacity check has passed.
Admit_RemovesFirst(self, config, tx, keys, dependencies, instant) ==
    Bind(check_pool_size_available(self, config, tx, keys, dependencies),
         LAMBDA avail :
           IF avail.err # "none"
           THEN Failed([self EXCEPT !.storage =
                           RemoveSubtrees(keys, 1,
                               [storage |-> @, removed |-> << >>]).storage],
                       avail.err, "none")
           ELSE Commit(self, tx, keys, dependencies,
                       avail.removed_transactions, instant))

\* pool.rs 117-143: the capacity check, then the commit.
Admit(self, config, tx, keys, dependencies, instant) ==
    Bind(check_pool_size_available(self, config, tx, keys, dependencies),
         LAMBDA avail :
           IF avail.err # "none" THEN Failed(self, avail.err, "none")
           ELSE Commit(self, tx, keys, dependencies,
                       avail.removed_transactions, instant))

\* Mutant of insert: the collision manager is not asked whether the
\* transaction may be stored.
insert_NoCollisionPolicy(self, config, tx, latest_view, keys, instant) ==
    IF ~latest_view.ok THEN Failed(self, "Database", "none")
    ELSE IF check_blacklisting(config.black_list, tx) # "none"
    THEN Failed(self, check_blacklisting(config.black_list, tx), "none")
    ELSE IF check_blob_does_not_exist(tx, latest_view) # "none"
    THEN Failed(self, check_blob_does_not_exist(tx, latest_view), "none")
    ELSE IF validate_inputs(self.storage, tx, latest_view,
                            config.utxo_validation) # "none"
    THEN Failed(self, validate_inputs(self.storage, tx, latest_view,
                                      config.utxo_validation), "none")
    ELSE Admit(self, config, tx, keys,
               collect_transaction_dependencies(self.storage, tx), instant)

\* Mutant of insert: the inputs are validated against the snapshot a second
\* call of latest_view() hands out, which holds every coin.
insert_FreshViewForInputs(self, config, tx, latest_view, keys, instant) ==
    LET second == CHOOSE w \in Views : w.ok /\ w.blob_exist_ok /\ w.blobs = {} IN
    IF ~latest_view.ok THEN Failed(self, "Database", "none")
    ELSE IF check_blacklisting(config.black_list, tx) # "none"
    THEN Failed(self, check_blacklisting(config.black_list, tx), "none")
    ELSE IF check_blob_does_not_exist(tx, latest_view) # "none"
    THEN Failed(self, check_blob_does_not_exist(tx, latest_view), "none")
    ELSE IF validate_inputs(self.storage, tx, second,
                            config.utxo_validation) # "none"
    THEN Failed(self, validate_inputs(self.storage, tx, second,
                                      config.utxo_validation), "none")
    ELSE
    LET colliding_transactions ==
            collect_colliding_transactions(self.collision_manager, tx)
        dependencies == collect_transaction_dependencies(self.storage, tx)
        has_dependencies == dependencies # {}
        can == cm_can_store_transaction(tx, has_dependencies,
                                        colliding_transactions, self.storage)
    IN  IF can # "none" THEN Failed(self, "Collided", can)
        ELSE
        Admit(self, config, tx, keys, dependencies, instant)

\* Mutant of insert: the blob check runs before the blacklist check.
insert_BlobBeforeBlacklist(self, config, tx, latest_view, keys, instant) ==
    IF ~latest_view.ok THEN Failed(self, "Database", "none")
    ELSE IF check_blob_does_not_exist(tx, latest_view) # "none"
    THEN Failed(self, check_blob_does_not_exist(tx, latest_view), "none")
    ELSE IF check_blacklisting(config.black_list, tx) # "none"
    THEN Failed(self, check_blacklisting(config.black_list, tx), "none")
    ELSE IF validate_inputs(self.storage, tx, latest_view,
                            config.utxo_validation) # "none"
    THEN Failed(self, validate_inputs(self.storage, tx, latest_view,
                                      config.utxo_validation), "none")
    ELSE
    LET colliding_transactions ==
            collect_colliding_transactions(self.collision_manager, tx)
        dependencies == collect_transaction_dependencies(self.storage, tx)
        has_dependencies == dependencies # {}
        can == cm_can_store_transaction(tx, has_dependencies,
                                        colliding_transactions, self.storage)
    IN  IF can # "none" THEN Failed(self, "Collided", can)
        ELSE
        Admit(self, config, tx, keys, dependencies, instant)

\* Pool::insert.  latest_view: the snapshot handed out; keys: the order in
\* which the map of colliding transactions iterates; instant: Instant::now()
\* at the time the transaction is stored.
insert(self, config, tx, latest_view, keys, instant) ==
    IF ~latest_view.ok THEN Failed(self, "Database", "none")
    ELSE IF check_blacklisting(config.black_list, tx) # "none"
    THEN Failed(self, check_blacklisting(config.black_list, tx), "none")
    ELSE IF check_blob_does_not_exist(tx, latest_view) # "none"
    THEN Failed(self, check_blob_does_not_exist(tx, latest_view), "none")
    ELSE IF validate_inputs(self.storage, tx, latest_view,
                            config.utxo_validation) # "none"
    THEN Failed(self, validate_inputs(self.storage, tx, latest_view,
                                      config.utxo_validation), "none")
    ELSE
    LET colliding_transactions ==
            collect_colliding_transactions(self.collision_manager, tx)
        dependencies == collect_transaction_dependencies(self.storage, tx)
        has_dependencies == dependencies # {}
        can == cm_can_store_transaction(tx, has_dependencies,
                                        colliding_transactions, self.storage)
    IN  IF can # "none" THEN Failed(self, "Collided", can)
        ELSE
        Admit(self, config, tx, keys, dependencies, instant)

\* The closure mapped over the result of gather_best_txs in
\* extract_transactions_for_block, from the i-th selected index on; it stops
\* at the first error.  acc = [self, err, extracted]
RECURSIVE ExtractEach(_, _, _)
ExtractEach(ids, i, acc) ==
    IF i > Len(ids) THEN acc
    ELSE
    Bind(remove_transaction_without_dependencies(acc.self.storage, ids[i]),
         LAMBDA r :
           IF r.err # "none" THEN [acc EXCEPT !.err = r.err]
           ELSE
           LET transaction == r.data.transaction IN
           Bind([acc EXCEPT
                   !.self = [@ EXCEPT
                       !.storage = r.storage,
                       !.collision_manager =
                           cm_on_removed_transaction(@, transaction),
                       !.selection_algorithm =
                           sel_on_removed_transaction(@, transaction),
                       !.tx_id_to_storage_id =
                           Restrict(@, DOMAIN @ \ {transaction.id})],
                   !.extracted = Append(@, transaction)],
                LAMBDA next : ExtractEach(ids, i + 1, next)))

\* Pool::extract_transactions_for_block
extract_transactions_for_block(self, config, order) ==
    Bind(gather_best_txs(self.selection_algorithm, config.max_block_gas,
                         self.storage, order),
         LAMBDA g :
           Bind(ExtractEach(g.result, 1,
                    [self |-> [self EXCEPT !.selection_algorithm = g.sel],
                     err |-> "none", extracted |-> << >>]),
                LAMBDA r :
                  [self |-> r.self, err |-> r.err, gathered |-> g.result,
                   gas_after |-> g.gas_after, extracted |-> r.extracted]))

\* The result of can_insert_transaction: the pool it leaves and the error.
DryResult(self, err, reason) == [self |-> self, err |-> err, reason |-> reason]

\* Mutant of can_insert_transaction: the capacity check is left out.
can_insert_transaction_NoCapacity(self, config, tx, persistent_storage, keys) ==
    IF ~persistent_storage.ok THEN DryResult(self, "Database", "none")
    ELSE IF check_blacklisting(config.black_list, tx) # "none"
    THEN DryResult(self, check_blacklisting(config.black_list, tx), "none")
    ELSE IF check_blob_does_not_exist(tx, persistent_storage) # "none"
    THEN DryResult(self, check_blob_does_not_exist(tx, persistent_storage), "none")
    ELSE IF validate_inputs(self.storage, tx, persistent_storage,
                            config.utxo_validation) # "none"
    THEN DryResult(self, validate_inputs(self.storage, tx, persistent_storage,
                                         config.utxo_validation), "none")
    ELSE
    LET colliding_transaction ==
            collect_colliding_transactions(self.collision_manager, tx)
        dependencies == collect_transaction_dependencies(self.storage, tx)
        can == cm_can_store_transaction(tx, dependencies # {},
                                        colliding_transaction, self.storage)
    IN  IF can # "none" THEN DryResult(self, "Collided", can)
        ELSE DryResult(self,
                       storage_can_store_transaction(
                           self.storage, tx, dependencies,
                           DOMAIN colliding_transaction),
                       "none")

\* Mutant of can_insert_transaction: the call goes on and stores the
\* transaction as insert does.
can_insert_transaction_Stores(self, config, tx, persistent_storage, keys) ==
    Bind(insert(self, config, tx, persistent_storage, keys, 1), LAMBDA r :
         DryResult(r.self, r.err, r.reason))

\* Pool::can_insert_transaction (&self: the pool is only read).  keys: the
\* order in which the map of colliding transactions iterates.
can_insert_transaction(self, config, tx, persistent_storage, keys) ==
    IF ~persistent_storage.ok THEN DryResult(self, "Database", "none")
    ELSE IF check_blacklisting(config.black_list, tx) # "none"
    THEN DryResult(self, check_blacklisting(config.black_list, tx), "none")
    ELSE IF check_blob_does_not_exist(tx, persistent_storage) # "none"
    THEN DryResult(self, check_blob_does_not_exist(tx, persistent_storage), "none")
    ELSE IF validate_inputs(self.storage, tx, persistent_storage,
                            config.utxo_validation) # "none"
    THEN DryResult(self, validate_inputs(self.storage, tx, persistent_storage,
                                         config.utxo_validation), "none")
    ELSE
    LET colliding_transaction ==
            collect_colliding_transactions(self.collision_manager, tx)
        dependencies == collect_transaction_dependencies(self.storage, tx)
        can == cm_can_store_transaction(tx, dependencies # {},
                                        colliding_transaction, self.storage)
    IN  IF can # "none" THEN DryResult(self, "Collided", can)
        ELSE
        Bind(check_pool_size_available(self, config, tx, keys, dependencies),
             LAMBDA avail :
               IF avail.err # "none" THEN DryResult(self, avail.err, "none")
               ELSE DryResult(self,
                              storage_can_store_transaction(
                                  self.storage, tx, dependencies,
                                  DOMAIN colliding_transaction),
                              "none"))

\* Mutant of find_one: the storage is asked for the first resident instead
\* of the one the tx_id map names.
find_one_FirstResident(self, tx_id) ==
    IF tx_id \in DOMAIN self.tx_id_to_storage_id
    THEN <<self.storage[CHOOSE i \in DOMAIN self.storage :
                           \A j \in DOMAIN self.storage : i <= j].transaction>>
    ELSE << >>

\* Pool::find_one: << >> is None, <<tx>> is Some(tx).
find_one(self, tx_id) ==
    IF tx_id \notin DOMAIN self.tx_id_to_storage_id THEN << >>
    ELSE IF self.tx_id_to_storage_id[tx_id] \notin DOMAIN self.storage THEN << >>
    ELSE <<self.storage[self.tx_id_to_storage_id[tx_id]].transaction>>

\* Pool::prune: `Ok(vec![])`.
prune(self) == [self |-> self, err |-> "none", removed |-> << >>]

(***************************************************************************)
(* The state machine.                                                      *)
(***************************************************************************)
VARIABLES
    storage,                \* Pool.storage
    collision_manager,      \* Pool.collision_manager
    selection_algorithm,    \* Pool.selection_algorithm
    tx_id_to_storage_id,    \* Pool.tx_id_to_storage_id
    current_gas,            \* Pool.current_gas
    current_bytes_size,     \* Pool.current_bytes_size
    now,                    \* the latest creation instant handed out
    last                    \* the last call and what it returned

poolVars == <<storage, collision_manager, selection_algorithm,
              tx_id_to_storage_id, current_gas, current_bytes_size>>

vars == <<storage, collision_manager, selection_algorithm,
          tx_id_to_storage_id, current_gas, current_bytes_size, now, last>>

Self ==
    Pool(storage, collision_manager, selection_algorithm, tx_id_to_storage_id,
         current_gas, current_bytes_size)

SetSelf(s) ==
    /\ storage' = s.storage
    /\ collision_manager' = s.collision_manager
    /\ selection_algorithm' = s.selection_algorithm
    /\ tx_id_to_storage_id' = s.tx_id_to_storage_id
    /\ current_gas' = s.current_gas
    /\ current_bytes_size' = s.current_bytes_size

Ids(txs) == [k \in DOMAIN txs |-> txs[k].id]

\* op: the call; tx: the id of the transaction inserted; err, reason: the
\* error returned ("none": Ok); removed: the ids of the removed list of
\* insert; to_remove, remove_calls, colliding: as in InsertResult;
\* gathered: what gather_best_txs returned; extracted: the ids of the
\* transactions extract_transactions_for_block removed; view: the snapshot
\* the call was handed; gas_after: as in GatherLoop; found: what find_one
\* returned (<< >>: None).
NoView == [ok |-> FALSE, coins |-> {}, blobs |-> {}, blob_exist_ok |-> TRUE]

Last(op, tx, err, reason, removed, to_remove, remove_calls, colliding, gathered, extracted, view, gas_after, found) ==
    [op |-> op, tx |-> tx, err |-> err, reason |-> reason, removed |-> removed,
     to_remove |-> to_remove, remove_calls |-> remove_calls,
     colliding |-> colliding, gathered |-> gathered, extracted |-> extracted,
     view |-> view, gas_after |-> gas_after, found |-> found]

Init ==
    /\ storage = new.storage
    /\ collision_manager = new.collision_manager
    /\ selection_algorithm = new.selection_algorithm
    /\ tx_id_to_storage_id = new.tx_id_to_storage_id
    /\ current_gas = new.current_gas
    /\ current_bytes_size = new.current_bytes_size
    /\ now = 0
    /\ last = Last("new", 0, "none", "none", << >>, << >>, << >>, {}, << >>, << >>,
                    NoView, << >>, << >>)

Insert ==
    \E id \in TxIds, latest_view \in Views :
      \E keys \in SeqsOf(DOMAIN collect_colliding_transactions(
                              collision_manager, TxUniverse[id])) :
        \E r \in {insert(Self, Config, TxUniverse[id], latest_view, keys, now + 1)} :
          /\ r.err = "none" => now < MaxInstant
          /\ SetSelf(r.self)
          /\ now' = IF r.err = "none" THEN now + 1 ELSE now
          /\ last' = Last("insert", id, r.err, r.reason, Ids(r.removed),
                          r.to_remove, r.remove_calls, r.colliding, << >>, << >>,
                          latest_view, << >>, << >>)

Extract ==
    \E order \in DependentOrders :
     \E r \in {extract_transactions_for_block(Self, Config, order)} :
      /\ SetSelf(r.self)
      /\ now' = now
      /\ last' = Last("extract", 0, r.err, "none", << >>, << >>, << >>, {},
                      r.gathered, Ids(r.extracted), NoView, r.gas_after,
                      << >>)

CanInsert ==
    \E id \in TxIds, persistent_storage \in Views :
      \E keys \in SeqsOf(DOMAIN collect_colliding_transactions(
                              collision_manager, TxUniverse[id])) :
        \E r \in {can_insert_transaction(Self, Config, TxUniverse[id],
                                         persistent_storage, keys)} :
          /\ SetSelf(r.self)
          /\ now' = now
          /\ last' = Last("can_insert", id, r.err, r.reason, << >>, << >>,
                          << >>, {}, << >>, << >>, persistent_storage, << >>,
                          << >>)

Prune ==
    \E r \in {prune(Self)} :
      /\ SetSelf(r.self)
      /\ now' = now
      /\ last' = Last("prune", 0, r.err, "none", Ids(r.removed), << >>, << >>,
                      {}, << >>, << >>, NoView, << >>, << >>)

Next == Insert \/ Extract \/ CanInsert \/ Prune

Spec == Init /\ [][Next]_vars

\* Insert when Instant::now() may return the instant of the previous store
\* again (Instant is monotonic, not strictly increasing), under the
\* snapshots whose lookups succeed.
InsertTied ==
    \E id \in TxIds, latest_view \in {v \in Views : v.ok /\ v.blob_exist_ok} :
      \E keys \in SeqsOf(DOMAIN collect_colliding_transactions(
                              collision_manager, TxUniverse[id])) :
        \E instant \in {now, now + 1} \cap (1..MaxInstant) :
          \E r \in {insert(Self, Config, TxUniverse[id], latest_view, keys, instant)} :
            /\ SetSelf(r.self)
            /\ now' = IF r.err = "none" THEN instant ELSE now
            /\ last' = Last("insert", id, r.err, r.reason, Ids(r.removed),
                            r.to_remove, r.remove_calls, r.colliding, << >>, << >>,
                            latest_view, << >>, << >>)

NextTies == InsertTied \/ Extract

\* Insert under the snapshot that holds every coin and no blob.
InsertFullView ==
    \E id \in TxIds :
      \E latest_view \in {v \in Views : v.ok /\ v.blob_exist_ok /\ v.blobs = {}} :
        \E keys \in SeqsOf(DOMAIN collect_colliding_transactions(
                                collision_manager, TxUniverse[id])) :
          \E r \in {insert(Self, Config, TxUniverse[id], latest_view, keys, now + 1)} :
            /\ r.err = "none" => now < MaxInstant
            /\ SetSelf(r.self)
            /\ now' = IF r.err = "none" THEN now + 1 ELSE now
            /\ last' = Last("insert", id, r.err, r.reason, Ids(r.removed),
                            r.to_remove, r.remove_calls, r.colliding, << >>, << >>,
                            latest_view, << >>, << >>)

\* find_one for an id of the universe or an id no transaction has.
FindOne ==
    \E tx_id \in TxIds \cup {0} :
      \E r \in {find_one(Self, tx_id)} :
        /\ UNCHANGED <<poolVars, now>>
        /\ last' = Last("find_one", tx_id, "none", "none", << >>, << >>, << >>,
                        {}, << >>, << >>, NoView, << >>, r)

NextLookup == InsertFullView \/ Extract \/ FindOne

\* The pool with its lookup.
SpecLookup == Init /\ [][NextLookup]_vars

\* Insert of a transaction of the graph universe, under the snapshot that
\* holds every coin and no blob.
InsertGraph ==
    \E id \in DOMAIN GraphUniverse :
      \E latest_view \in {v \in Views : v.ok /\ v.blob_exist_ok /\ v.blobs = {}} :
        \E keys \in SeqsOf(DOMAIN collect_colliding_transactions(
                                collision_manager, GraphUniverse[id])) :
          \E r \in {insert(Self, Config, GraphUniverse[id], latest_view, keys, now + 1)} :
            /\ r.err = "none" => now < MaxInstant
            /\ SetSelf(r.self)
            /\ now' = IF r.err = "none" THEN now + 1 ELSE now
            /\ last' = Last("insert", id, r.err, r.reason, Ids(r.removed),
                            r.to_remove, r.remove_calls, r.colliding, << >>, << >>,
                            latest_view, << >>, << >>)

NextGraph == InsertGraph \/ Extract

\* The pool fed with the graph universe.
SpecGraph == Init /\ [][NextGraph]_vars

(***************************************************************************)
(* p2p request_response::protocols: the version of the request-response   *)
(* protocol a peer understands.  Option<T>: << >> is None, <<v>> Some(v).  *)
(***************************************************************************)
REQUEST_RESPONSE_PROTOCOL_ID == "/fuel/req_res/0.0.1"

HEARTBEAT_PROTOCOL == "/fuel/heartbeat/0.0.1"

\* The protocols a peer may announce in identify::Info.
StreamProtocols ==
    {REQUEST_RESPONSE_PROTOCOL_ID, HEARTBEAT_PROTOCOL,
     "/some/other/protocol/1.0.0", "/fuel/req_res/0.0.2"}

\* The longest list of protocols of a peer.
MaxProtocols == 4

Infos == UNION {[1..n -> StreamProtocols] : n \in 0..MaxProtocols}

\* #[derive(PartialOrd, Ord)] on ProtocolVersion: the rank of the variant.
VersionRank(v) == IF v = "V1" THEN 0 ELSE 1

\* TryFrom<StreamProtocol> for ProtocolVersion, followed by .ok().
try_from(protocol) ==
    IF protocol = REQUEST_RESPONSE_PROTOCOL_ID THEN <<"V1">> ELSE << >>

\* Iterator::filter_map over the protocols from the i-th on.
RECURSIVE filter_map(_, _)
filter_map(protocols, i) ==
    IF i > Len(protocols) THEN << >>
    ELSE try_from(protocols[i]) \o filter_map(protocols, i + 1)

\* Iterator::max: None for the empty iterator, else the last greatest item.
max(versions) ==
    IF versions = << >> THEN << >>
    ELSE LET k == CHOOSE j \in DOMAIN versions :
                     /\ \A l \in DOMAIN versions :
                           VersionRank(versions[l]) <= VersionRank(versions[j])
                     /\ \A l \in DOMAIN versions :
                           (l > j) => VersionRank(versions[l]) < VersionRank(versions[j])
         IN  <<versions[k]>>

\* Mutant of latest_compatible_version_for_peer: only the first protocol of
\* the list is looked at.
latest_compatible_version_for_peer_FirstOnly(info) ==
    IF info = << >> THEN << >> ELSE try_from(info[1])

\* ProtocolVersion::latest_compatible_version_for_peer, info: info.protocols.
latest_compatible_version_for_peer(info) == max(filter_map(info, 1))

\* A peer has been identified with the protocols info.
InitProtocol ==
    /\ storage = new.storage
    /\ collision_manager = new.collision_manager
    /\ selection_algorithm = new.selection_algorithm
    /\ tx_id_to_storage_id = new.tx_id_to_storage_id
    /\ current_gas = new.current_gas
    /\ current_bytes_size = new.current_bytes_size
    /\ now = 0
    /\ \E info \in Infos : last = [op |-> "identify", info |-> info, version |-> << >>]

Negotiate ==
    /\ last.op = "identify"
    /\ \E r \in {latest_compatible_version_for_peer(last.info)} :
          last' = [op |-> "negotiated", info |-> last.info, version |-> r]
    /\ UNCHANGED <<poolVars, now>>

NextProtocol == Negotiate

\* The negotiation of the request-response protocol with an identified peer.
SpecProtocol == InitProtocol /\ [][NextProtocol]_vars

\* The largest constraints.max_gas handed to gather_best_txs.
MaxGatherGas == 4

\* The storages gather_best_txs may be handed beside the storage of the
\* pool: the storage once the subtree of an executable resident is gone,
\* while the priority structure still holds its entry.
StaleStorages ==
    {remove_transaction_and_dependents_subtree(storage, i).storage :
        i \in Range(selection_algorithm.executable_transactions_sorted_tip_gas_ratio)
                \cap DOMAIN storage}

\* No call of gather_best_txs has been made: the call leaves the pool as it
\* is, so the pool is followed no further once a call is made.
Idle == last.op \notin {"gather", "gathered"}

InsertIdle == Idle /\ InsertGraph

ExtractIdle == Idle /\ Extract

\* gather_best_txs is called on the priority structure of the pool.
GatherCall ==
    /\ Idle
    /\ \E max_gas \in 0..MaxGatherGas, order \in DependentOrders :
         \E arg \in {storage} \cup StaleStorages :
            last' = [op |-> "gather", sel |-> selection_algorithm, storage |-> arg,
                     max_gas |-> max_gas, gas_left |-> max_gas, result |-> << >>,
                     order |-> order]
    /\ UNCHANGED <<poolVars, now>>

\* The loop condition holds: the body runs once.
GatherIterate ==
    /\ last.op = "gather"
    /\ GatherContinues(last.sel, last.gas_left)
    /\ \E b \in {GatherBody(last.sel, last.storage, last.gas_left, last.result, last.order)} :
          last' = [last EXCEPT !.op = IF b.break THEN "gathered" ELSE "gather",
                               !.sel = b.sel, !.gas_left = b.gas_left,
                               !.result = b.result]
    /\ UNCHANGED <<poolVars, now>>

\* The loop condition fails: Ok(result).
GatherReturn ==
    /\ last.op = "gather"
    /\ ~GatherContinues(last.sel, last.gas_left)
    /\ last' = [last EXCEPT !.op = "gathered"]
    /\ UNCHANGED <<poolVars, now>>

NextGather == InsertIdle \/ ExtractIdle \/ GatherCall \/ GatherIterate \/ GatherReturn

\* The pool fed with the graph universe, and gather_best_txs run pass by
\* pass; a call that has started keeps running.
SpecGather ==
    /\ Init /\ [][NextGather]_vars
    /\ WF_vars(GatherIterate) /\ WF_vars(GatherReturn)

\* The pool under a clock that may hand out the same instant twice.
SpecTies == Init /\ [][NextTies]_vars

(***************************************************************************)
(* Properties.                                                             *)
(***************************************************************************)
Residents == DOMAIN storage

ResidentIds == {storage[i].transaction.id : i \in Residents}

TotalGas == SumOver(Residents, [i \in Residents |-> storage[i].transaction.max_gas])

TotalBytes ==
    SumOver(Residents, [i \in Residents |-> storage[i].transaction.metered_bytes_size])

InsertOk == last.op = "insert" /\ last.err = "none"

InsertFailed == last.op = "insert" /\ last.err # "none"

Executable == Range(selection_algorithm.executable_transactions_sorted_tip_gas_ratio)

\* C1: after every successful insert the residents' total gas, total bytes
\* and number are within pool_limits.
C1_CapacityEnvelope ==
    InsertOk =>
        /\ TotalGas <= Config.pool_limits.max_gas
        /\ TotalBytes <= Config.pool_limits.max_bytes_size
        /\ Cardinality(Residents) <= Config.pool_limits.max_txs


\* The transaction of the insert of this step, its colliding residents and
\* its dependencies in the pool the call started from.
StepTx == TxUniverse[last'.tx]

StepColliding == DOMAIN collect_colliding_transactions(collision_manager, StepTx)

StepDependencies == collect_transaction_dependencies(storage, StepTx)

InsertStep == last'.op = "insert" /\ vars' # vars

InsertOkStep == InsertStep /\ last'.err = "none"

ExtractStep == last'.op = "extract" /\ vars' # vars

NoDuplicates(s) == \A j, k \in DOMAIN s : s[j] = s[k] => j = k

C3_TopologicalExtract ==
    [][ExtractStep =>
          \A k \in DOMAIN last'.gathered :
             LET i == last'.gathered[k] IN
             i \in DOMAIN storage =>
                \A p \in storage[i].parents :
                   \E j \in 1..(k - 1) : last'.gathered[j] = p]_vars

\* C4: a resident is in the selection structure iff it has no parents, and
\* the structure holds residents only.
C4_SelectionMembership ==
    /\ Executable \subseteq Residents
    /\ \A i \in Residents : i \in Executable <=> storage[i].parents = {}

\* C5: current_gas and current_bytes_size are the sums over the residents.
C5_RunningTotalsExact ==
    /\ current_gas = TotalGas
    /\ current_bytes_size = TotalBytes

CumulativeRatio(data) ==
    <<data.dependents_cumulative_tip, data.dependents_cumulative_gas>>

\* C6: every non-colliding subtree root evicted by a successful insert has
\* a cumulative tip/gas ratio strictly below the ratio of the newcomer.
C6_NoRegressEviction ==
    [][InsertOkStep =>
          \A r \in Range(last'.to_remove) \ last'.colliding :
             RatioCmp(CumulativeRatio(storage[r]),
                      <<StepTx.tip, StepTx.max_gas>>) = "Less"]_vars

\* C7: tx_id_to_storage_id is a bijection between the ids of the residents
\* and their storage indices.
C7_IndexBijection ==
    /\ DOMAIN tx_id_to_storage_id = ResidentIds
    /\ \A t \in DOMAIN tx_id_to_storage_id :
          /\ tx_id_to_storage_id[t] \in Residents
          /\ storage[tx_id_to_storage_id[t]].transaction.id = t
    /\ Cardinality(DOMAIN tx_id_to_storage_id) = Cardinality(Residents)

C7_Witness ==
    /\ InsertOk
    /\ last.removed # << >>
    /\ Cardinality(Residents) >= 2
    /\ \E t \in DOMAIN tx_id_to_storage_id : tx_id_to_storage_id[t] # t

\* The removed list of a successful insert holds, once each, the
\* transactions that were resident before the call and are not after it.
RemovedListExact ==
    InsertOkStep =>
       /\ Range(last'.removed) = ResidentIds \ (ResidentIds)'
       /\ NoDuplicates(last'.removed)

C9_WholeSubtreeRemoval ==
    [][InsertOkStep =>
          LET roots == (Range(last'.to_remove) \cup last'.colliding)
              gone  == roots \cup Descendants(storage, roots)
              ids   == {storage[i].transaction.id : i \in gone}
              sel   == selection_algorithm'
          IN  /\ ids \cap (ResidentIds)' = {}
              /\ ids = Range(last'.removed)
              /\ \A i \in DOMAIN storage' :
                    storage'[i].parents \subseteq DOMAIN storage'
              /\ \A k \in DOMAIN sel.executable_transactions_sorted_tip_gas_ratio :
                    k.tx_id \notin ids
              /\ DOMAIN sel.tx_id_to_creation_instant \cap ids = {}
              /\ DOMAIN tx_id_to_storage_id' \cap ids = {}
              /\ \A k \in DOMAIN collision_manager' :
                    /\ collision_manager'[k] \in DOMAIN storage'
                    /\ k \in Claims(storage'[collision_manager'[k]].transaction)]_vars

C9_Witness ==
    /\ InsertOk
    /\ Len(last.removed) >= 3
    /\ Range(last.to_remove) \ last.colliding # {}

\* C10: an insert displaces colliding residents only if the newcomer has no
\* dependency in the pool and its tip is above the cumulative tip of each of
\* them; otherwise, once the checks before the collision policy have
\* passed, it is rejected as Collided (DependentAndColliding with a
\* dependency, else NotProfitable) and the pool is unchanged.
C10_DisplacementPolicy ==
    [][InsertStep =>
          LET pays == \A c \in StepColliding :
                         StepTx.tip > storage[c].dependents_cumulative_tip
          IN  /\ (last'.err = "none" /\ StepColliding # {}) =>
                    /\ StepDependencies = {}
                    /\ pays
                    /\ last'.colliding = StepColliding
              /\ ( /\ StepColliding # {}
                   /\ last'.err \notin {"Database", "Blacklisted",
                                        "NotInsertedBlobIdAlreadyTaken",
                                        "NotInsertedInputUtxo"}
                   /\ (StepDependencies # {} \/ ~pays) ) =>
                    /\ last'.err = "Collided"
                    /\ last'.reason = IF StepDependencies # {}
                                      THEN "DependentAndColliding"
                                      ELSE "NotProfitable"
                    /\ UNCHANGED poolVars]_vars

C10_WitnessDisplaced ==
    /\ InsertOk
    /\ Cardinality(last.colliding) = 2
    /\ Len(last.removed) = 3

\* The checks of insert before the capacity check (pool.rs 94-116) pass for
\* tx on the pool of this state under the snapshot view.
PassesChecks(tx, view) ==
    /\ view.ok
    /\ check_blacklisting(Config.black_list, tx) = "none"
    /\ check_blob_does_not_exist(tx, view) = "none"
    /\ validate_inputs(storage, tx, view, Config.utxo_validation) = "none"
    /\ cm_can_store_transaction(
           tx, collect_transaction_dependencies(storage, tx) # {},
           collect_colliding_transactions(collision_manager, tx), storage) = "none"

\* Admitting tx to the residents of this state exceeds a limit of the pool.
ExceedsLimits(tx) ==
    ~WithinLimits(Config.pool_limits, TotalGas + tx.max_gas,
                  TotalBytes + tx.metered_bytes_size, Cardinality(Residents) + 1)

\* C11: an insert of a transaction with a resident dependency that passes
\* the checks before the capacity check and would bring the pool over one of
\* its three limits fails with NotInsertedLimitHit and leaves the pool as it
\* was, whatever the ratios of the residents.
C11_DependentCannotEvict ==
    [][(/\ InsertStep
        /\ StepDependencies # {}
        /\ PassesChecks(StepTx, last'.view)
        /\ ExceedsLimits(StepTx))
       => /\ last'.err = "NotInsertedLimitHit"
          /\ last'.removed = << >>
          /\ poolVars' = poolVars]_vars

\* A dependent transaction was refused for the limits while a subtree root
\* of lower ratio than its own was resident.
C11_Witness ==
    /\ last.op = "insert" /\ last.err = "NotInsertedLimitHit"
    /\ collect_transaction_dependencies(storage, TxUniverse[last.tx]) # {}
    /\ ExceedsLimits(TxUniverse[last.tx])
    /\ \E i \in Residents :
          /\ storage[i].parents = {}
          /\ RatioCmp(RatioNew(storage[i].dependents_cumulative_tip,
                               storage[i].dependents_cumulative_gas),
                      RatioNew(TxUniverse[last.tx].tip,
                               TxUniverse[last.tx].max_gas)) = "Less"

\* The sum of max_gas over a sequence of storage indices of this state, each
\* occurrence counted.
GasOf(ids) ==
    SumOver(DOMAIN ids, [k \in DOMAIN ids |-> storage[ids[k]].transaction.max_gas])

\* C12: the max_gas of the sequence gather_best_txs returns, every occurrence
\* counted, sums to at most config.max_block_gas, and so does what
\* extract_transactions_for_block returns.
C12_GasBoundedBatch ==
    [][ExtractStep =>
          /\ \A k \in DOMAIN last'.gathered : last'.gathered[k] \in Residents
          /\ GasOf(last'.gathered) <= Config.max_block_gas
          /\ SumOver(DOMAIN last'.extracted,
                     [k \in DOMAIN last'.extracted |->
                         TxUniverse[last'.extracted[k]].max_gas])
                <= Config.max_block_gas]_vars

\* An extract returned several transactions that use up the block gas.
C12_Witness ==
    /\ last.op = "extract" /\ last.err = "none"
    /\ Len(last.extracted) >= 2
    /\ SumOver(DOMAIN last.extracted,
               [k \in DOMAIN last.extracted |->
                   TxUniverse[last.extracted[k]].max_gas]) = Config.max_block_gas

\* The order the specification gives the priority structure: higher ratio
\* first, then the earlier creation_instant, then the smaller tx_id.
WalkedBefore(a, b) ==
    \/ RatioCmp(a.ratio, b.ratio) = "Greater"
    \/ /\ RatioCmp(a.ratio, b.ratio) = "Equal"
       /\ \/ a.creation_instant < b.creation_instant
          \/ /\ a.creation_instant = b.creation_instant
             /\ a.tx_id < b.tx_id

\* The entries of the priority structure that are in the storage and fit
\* the gas of a block.
FittingKeys ==
    {k \in DOMAIN selection_algorithm.executable_transactions_sorted_tip_gas_ratio :
        LET i == selection_algorithm.executable_transactions_sorted_tip_gas_ratio[k]
        IN  i \in Residents /\ storage[i].transaction.max_gas <= Config.max_block_gas}

\* C13: the first entry gather_best_txs selects is the first, in the order
\* ratio descending, creation_instant ascending, tx_id ascending, of the
\* entries that fit.
C13_SelectionOrder ==
    [][(ExtractStep /\ last'.gathered # << >>) =>
          \A k \in FittingKeys :
             LET first == CHOOSE f \in FittingKeys :
                     selection_algorithm.executable_transactions_sorted_tip_gas_ratio[f]
                         = last'.gathered[1]
             IN  k = first \/ WalkedBefore(first, k)]_vars

KeyOf(i) ==
    Key(RatioNew(storage[i].transaction.tip, storage[i].transaction.max_gas),
        storage[i].creation_instant, storage[i].transaction.id)

\* The positions of the sequence g that the pass after the one of position
\* j selected (left: the gas left after the pass of each position).
NextPass(g, left, j) ==
    {k \in DOMAIN g :
        /\ k > j /\ left[k] < left[j]
        /\ \A m \in DOMAIN g : (m > j /\ left[m] < left[j]) => left[m] <= left[k]}

\* The gas left when the walk of the pass after the one of position j
\* reaches the resident C: the entries walked before C have been served.
GasWhenReached(g, left, j, C) ==
    LET served == {k \in NextPass(g, left, j) :
                      g[k] # C /\ KeyCmp(KeyOf(g[k]), KeyOf(C)) = "Greater"}
    IN  left[j] - SumOver(served, [k \in served |-> storage[g[k]].transaction.max_gas])

StepReturned == IF last'.err = "none" THEN Range(last'.extracted) ELSE {}

\* The executable residents the extract of this step did not select.
StepSkipped ==
    {k \in DOMAIN selection_algorithm.executable_transactions_sorted_tip_gas_ratio :
        LET i == selection_algorithm.executable_transactions_sorted_tip_gas_ratio[k]
        IN  i \in Residents /\ i \notin Range(last'.gathered)}

\* The skipped executable residents stay as they were in the storage, the
\* selection structure, the collision index and the tx_id map.
SkippedStay ==
    \A k \in StepSkipped :
       LET e  == selection_algorithm.executable_transactions_sorted_tip_gas_ratio
           i  == e[k]
           tx == storage[i].transaction
       IN  /\ i \in DOMAIN storage' /\ storage'[i].transaction = tx
           /\ k \in DOMAIN selection_algorithm'.executable_transactions_sorted_tip_gas_ratio
           /\ selection_algorithm'.executable_transactions_sorted_tip_gas_ratio[k] = i
           /\ \A c \in Claims(tx) :
                 (c \in DOMAIN collision_manager /\ collision_manager[c] = i)
                 => (c \in DOMAIN collision_manager' /\ collision_manager'[c] = i)
           /\ tx.id \in DOMAIN tx_id_to_storage_id'
           /\ tx_id_to_storage_id'[tx.id] = tx_id_to_storage_id[tx.id]

\* C15: extract_transactions_for_block removes from the storage exactly the
\* transactions it returns, and every executable resident it skipped stays
\* resident, in the selection structure under the same key, with its
\* collision claims and its tx_id map entry.
C15_ExtractFrame ==
    [][ExtractStep =>
          /\ DOMAIN storage' \subseteq DOMAIN storage
          /\ {storage[i].transaction.id : i \in DOMAIN storage \ DOMAIN storage'}
                = StepReturned
          /\ SkippedStay]_vars

CanInsertStep == last'.op = "can_insert" /\ vars' # vars

\* C16: can_insert_transaction leaves storage, collision index, selection
\* structure, tx_id map, current_gas and current_bytes_size as they were,
\* whatever it returns.
C16_CanInsertPure ==
    [][CanInsertStep => poolVars' = poolVars]_vars

\* can_insert_transaction returned Ok for a transaction whose insert would
\* displace residents.
C16_Witness ==
    /\ last.op = "can_insert" /\ last.err = "none"
    /\ DOMAIN collect_colliding_transactions(collision_manager,
                                              TxUniverse[last.tx]) # {}

\* C17: can_insert_transaction returns what insert would return on the same
\* pool, snapshot and transaction: Ok exactly when insert succeeds, and the
\* same error otherwise, in whatever order the colliding map iterates.
C17_CanInsertIsDryRun ==
    [][CanInsertStep =>
          \A keys \in SeqsOf(StepColliding) :
             LET r == insert(Self, Config, StepTx, last'.view, keys, now + 1)
             IN  r.err = last'.err /\ r.reason = last'.reason]_vars

\* can_insert_transaction refused for the limits a transaction that passes
\* every check before the capacity check.
C17_Witness ==
    /\ last.op = "can_insert" /\ last.err = "NotInsertedLimitHit"
    /\ PassesChecks(TxUniverse[last.tx], last.view)

\* The snapshot view once the blob of tx is gone from the persistent storage.
BlobDeleted(view, tx) == [view EXCEPT !.blobs = @ \ {tx.blob_id}]

\* tx passes every check of insert other than the blob check on the pool of
\* this state under the snapshot view, whatever the order of the colliding
\* map.
OtherChecksPass(tx, view) ==
    /\ PassesChecks(tx, view)
    /\ \A keys \in SeqsOf(DOMAIN collect_colliding_transactions(collision_manager, tx)) :
          check_pool_size_available(
              Self, Config, tx, keys,
              collect_transaction_dependencies(storage, tx)).err = "none"

\* insert accepts tx on the pool of this state under the snapshot view.
Accepts(tx, view) ==
    \A keys \in SeqsOf(DOMAIN collect_colliding_transactions(collision_manager, tx)) :
       insert(Self, Config, tx, view, keys, now + 1).err = "none"

\* C18: an insert that gets a snapshot and passes the blacklist fails with
\* NotInsertedBlobIdAlreadyTaken if its Blob transaction's blob_id is in the
\* snapshot, and with Database if the blob_exist lookup fails, the pool
\* unchanged in both cases; the refused transaction is accepted under the
\* snapshot without the blob if it passes the other checks; no transaction
\* that is not a Blob gets NotInsertedBlobIdAlreadyTaken.
C18_BlobDuplicate ==
    [][InsertStep =>
         LET tx == StepTx
             v  == last'.view
             checked == v.ok /\ check_blacklisting(Config.black_list, tx) = "none"
         IN  /\ tx.blob_id = 0 => last'.err # "NotInsertedBlobIdAlreadyTaken"
             /\ (checked /\ tx.blob_id # 0 /\ ~v.blob_exist_ok)
                  => (last'.err = "Database" /\ poolVars' = poolVars)
             /\ (checked /\ tx.blob_id # 0 /\ v.blob_exist_ok
                         /\ tx.blob_id \in v.blobs)
                  => /\ last'.err = "NotInsertedBlobIdAlreadyTaken"
                     /\ poolVars' = poolVars
                     /\ OtherChecksPass(tx, BlobDeleted(v, tx))
                          => Accepts(tx, BlobDeleted(v, tx))]_vars

\* A Blob transaction was refused for its blob_id and would be accepted by
\* this pool once the blob is gone from the persistent storage.
C18_Witness ==
    /\ last.op = "insert" /\ last.err = "NotInsertedBlobIdAlreadyTaken"
    /\ TxUniverse[last.tx].blob_id \in last.view.blobs
    /\ Residents # {}
    /\ Accepts(TxUniverse[last.tx], BlobDeleted(last.view, TxUniverse[last.tx]))

\* C19: between the operations every CollisionKey of the collision index
\* maps to a resident that claims it, every claim of a resident is in the
\* index, and no two residents claim the same key; so the transactions a
\* successful insert displaced are gone when the newcomer is resident.
C19_CollisionExclusivity ==
    /\ \A k \in DOMAIN collision_manager :
          /\ collision_manager[k] \in Residents
          /\ k \in Claims(storage[collision_manager[k]].transaction)
    /\ \A i \in Residents :
          \A k \in Claims(storage[i].transaction) :
             k \in DOMAIN collision_manager /\ collision_manager[k] = i
    /\ \A i, j \in Residents :
          i # j => Claims(storage[i].transaction)
                     \cap Claims(storage[j].transaction) = {}

\* A successful insert displaced the holder of a key the newcomer claims,
\* next to residents it left alone.
C19_Witness ==
    /\ InsertOk /\ last.colliding # {}
    /\ last.tx \in ResidentIds
    /\ Cardinality(Residents) >= 2
    /\ \A k \in Claims(TxUniverse[last.tx]) :
          k \in DOMAIN collision_manager
          /\ storage[collision_manager[k]].transaction.id = last.tx

PruneStep == last'.op = "prune" /\ vars' # vars

\* The residents whose creation_instant is older than config.ttl at the
\* latest instant of the clock.
Expired == {i \in Residents : now - storage[i].creation_instant > Config.ttl}

\* C20: prune removes every resident older than ttl with its dependent
\* subtree and no other, returns the removed transactions and updates the
\* tx_id map, the collision index, the selection structure and the counters.
C20_PruneRemovesExpired ==
    [][PruneStep =>
         LET gone == Expired \cup Descendants(storage, Expired)
         IN  /\ DOMAIN storage' = DOMAIN storage \ gone
             /\ Range(last'.removed) = {storage[i].transaction.id : i \in gone}
             /\ DOMAIN tx_id_to_storage_id'
                   = {storage[i].transaction.id : i \in DOMAIN storage \ gone}
             /\ \A k \in DOMAIN collision_manager' :
                   collision_manager'[k] \notin gone
             /\ Range(selection_algorithm'.executable_transactions_sorted_tip_gas_ratio)
                   \cap gone = {}
             /\ current_gas' = current_gas
                   - SumOver(gone, [i \in gone |-> storage[i].transaction.max_gas])]_vars

FindStep == last'.op = "find_one" /\ vars' # vars

\* The resident transactions with the id tx_id, as a sequence.
ResidentWithId(tx_id) ==
    IF \E i \in Residents : storage[i].transaction.id = tx_id
    THEN <<storage[CHOOSE i \in Residents :
                      storage[i].transaction.id = tx_id].transaction>>
    ELSE << >>

\* C21: find_one(id) returns the resident transaction with that id and None
\* if there is none; after a step it returns None for the id of a failed
\* insert that was not resident before, for every id of a removed list and
\* for every extracted id.
C21_FindOneFaithful ==
    [][/\ (FindStep =>
              (/\ last'.found = ResidentWithId(last'.tx)
               /\ (last'.found # << >> => last'.found[1].id = last'.tx)))
       /\ \A id \in TxIds :
             (\/ (InsertStep /\ last'.err # "none" /\ last'.tx = id
                             /\ id \notin ResidentIds)
              \/ (InsertOkStep /\ id \in Range(last'.removed))
              \/ (ExtractStep /\ id \in Range(last'.extracted)))
             => find_one(Self, id)' = << >>]_vars

\* find_one found a resident after an insert removed others and an extract
\* took some, in a pool where some id of the universe is not resident.
C21_Witness ==
    /\ last.op = "find_one" /\ last.found # << >>
    /\ Cardinality(Residents) >= 2
    /\ last.found[1] # storage[CHOOSE i \in Residents :
                                 \A j \in Residents : i <= j].transaction

\* C22: an extract_transactions_for_block that returns an error leaves the
\* pool as it was before the call.
C22_ExtractAtomicOnFailure ==
    [][(ExtractStep /\ last'.err # "none") => poolVars' = poolVars]_vars

\* C23: extract determinism.  The pool that extract_transactions_for_block
\* leaves, the sequence it gathers, the sequence it returns and its error do
\* not depend on the order in which get_dependents iterates the children of
\* a selected transaction: every order gives what this step gave.
C23_ExtractDeterminism ==
    [][ExtractStep =>
         \A order \in DependentOrders :
            LET r == extract_transactions_for_block(Self, Config, order)
            IN  /\ r.self = Self'
                /\ r.err = last'.err
                /\ r.gathered = last'.gathered
                /\ Ids(r.extracted) = last'.extracted]_vars

\* An extraction has selected transaction 1 while both of its children, 3
\* and 6, were resident: the two orders of get_dependents differ.
C23_Witness ==
    /\ last.op = "extract"
    /\ 1 \in Range(last.extracted)
    /\ {3, 6} \subseteq ResidentIds \cup Range(last.extracted)

\* The resident n and its transitive descendants.
SubtreeOf(n) == {n} \cup Descendants(storage, {n})

\* C24: aggregate correctness.  For every resident n the three cumulative
\* aggregates of n equal the sums of max_gas, metered_bytes_size and tip over
\* n and its transitive descendants, each counted once.
C24_AggregateCorrectness ==
    \A n \in DOMAIN storage :
        LET S == SubtreeOf(n) IN
        /\ storage[n].dependents_cumulative_gas =
               SumOver(S, [j \in S |-> storage[j].transaction.max_gas])
        /\ storage[n].dependents_cumulative_bytes_size =
               SumOver(S, [j \in S |-> storage[j].transaction.metered_bytes_size])
        /\ storage[n].dependents_cumulative_tip =
               SumOver(S, [j \in S |-> storage[j].transaction.tip])

\* Transaction 3 was stored with the parents 1 and 2, 2 being a child of 1,
\* and 4 with the parents 2 and 3; then the insert of 5 has removed the
\* subtree of 3, which its ancestors 1 and 2 reached through several paths.
C24_Witness ==
    /\ InsertOk
    /\ last.tx = 5
    /\ {3, 4} \subseteq Range(last.removed)
    /\ {1, 2} \subseteq ResidentIds

\* C25: snapshot discipline.  A call of insert or can_insert_transaction
\* works on the one snapshot latest_view() handed it.  If the provider fails
\* the call returns Database and leaves the pool as it was, also for a
\* transaction the blacklist refuses.  Otherwise, for a transaction that
\* passes the blacklist, the blob check and the input validation are both
\* those of that snapshot: the call returns the error of the blob check on
\* it, else the error of the input validation on it, and none of these
\* errors when both pass on it.
C25_SnapshotDiscipline ==
    [][(InsertStep \/ CanInsertStep) =>
         LET tx == StepTx
             v  == last'.view
             blob == check_blob_does_not_exist(tx, v)
             inputs == validate_inputs(storage, tx, v, Config.utxo_validation)
         IN  /\ ~v.ok => (last'.err = "Database" /\ poolVars' = poolVars)
             /\ (v.ok /\ check_blacklisting(Config.black_list, tx) = "none")
                  => /\ blob # "none" => last'.err = blob
                     /\ (blob = "none" /\ inputs # "none") => last'.err = inputs
                     /\ (blob = "none" /\ inputs = "none")
                          => last'.err \notin {"Database", "NotInsertedBlobIdAlreadyTaken",
                                               "NotInsertedInputUtxo"}]_vars

\* An insert was refused for an input that the snapshot it was handed does
\* not hold and another snapshot of the provider holds.
C25_Witness ==
    /\ last.op = "insert"
    /\ last.view.ok
    /\ last.err = "NotInsertedInputUtxo"
    /\ \E w \in Views :
          /\ w.ok
          /\ validate_inputs(storage, TxUniverse[last.tx], w, Config.utxo_validation) = "none"

\* C26: protocol negotiation.  latest_compatible_version_for_peer returns
\* Some(V1) exactly when the protocols of the peer contain the
\* request-response protocol id and None otherwise (an empty list, or only
\* other protocols), and it returns for the list what it returns for the
\* list without the other protocols.
C26_ProtocolNegotiation ==
    last.op = "negotiated" =>
        LET own == SelectSeq(last.info, LAMBDA p : p = REQUEST_RESPONSE_PROTOCOL_ID) IN
        /\ (last.version = <<"V1">>) <=> (REQUEST_RESPONSE_PROTOCOL_ID \in Range(last.info))
        /\ (REQUEST_RESPONSE_PROTOCOL_ID \notin Range(last.info)) => last.version = << >>
        /\ last.version = latest_compatible_version_for_peer(own)

\* A peer that announces the request-response protocol between two other
\* protocols got V1.
C26_Witness ==
    /\ last.op = "negotiated"
    /\ last.version = <<"V1">>
    /\ Len(last.info) >= 3
    /\ last.info[1] = HEARTBEAT_PROTOCOL
    /\ last.info[2] = REQUEST_RESPONSE_PROTOCOL_ID
    /\ last.info[3] # REQUEST_RESPONSE_PROTOCOL_ID

\* The storage indexes gather_best_txs, called on the pool of this state,
\* inserts into the priority structure: those it returns or leaves in the
\* structure that were not in the structure before.
PromotedByGather(order) ==
    LET g == gather_best_txs(selection_algorithm, Config.max_block_gas, storage, order)
    IN  (Range(g.result) \cup Range(g.sel.executable_transactions_sorted_tip_gas_ratio))
            \ Range(selection_algorithm.executable_transactions_sorted_tip_gas_ratio)

\* C27: promotion condition.  Every transaction gather_best_txs inserts into
\* the priority structure is resident and each of its parents is selected by
\* this call or absent from the storage: a child with a resident parent that
\* was not selected is not promoted.
C27_PromotionCondition ==
    [][ExtractStep =>
         \A order \in DependentOrders :
            \A c \in PromotedByGather(order) :
               /\ c \in Residents
               /\ \A q \in storage[c].parents :
                     q \in Range(last'.gathered) \/ q \notin Residents]_vars

\* C28: no duplicate selection.  The sequence gather_best_txs returns within
\* extract_transactions_for_block holds every storage index at most once,
\* also when a transaction has parents that are selected in different
\* passes.
C28_NoDuplicateSelection ==
    [][ExtractStep =>
         \A j, k \in DOMAIN last'.gathered :
            last'.gathered[j] = last'.gathered[k] => j = k]_vars

\* The errors of the checks of insert (pool.rs 94-118).
CheckErrors ==
    {"Database", "Blacklisted", "NotInsertedBlobIdAlreadyTaken",
     "NotInsertedInputUtxo", "Collided", "NotInsertedLimitHit"}

\* C29: order of checks in insert.  The error insert returns is that of the
\* first check that fails in the order latest_view, blacklist, blob
\* duplicate, input validation, collision policy (on the collisions and the
\* dependencies collected before it), capacity; when every check passes the
\* call returns none of their errors; and a call that returns the error of
\* a check has left the pool as it was.
C29_OrderOfChecks ==
    [][InsertStep =>
         LET tx     == StepTx
             v      == last'.view
             e      == last'.err
             black  == check_blacklisting(Config.black_list, tx)
             blob   == check_blob_does_not_exist(tx, v)
             inputs == validate_inputs(storage, tx, v, Config.utxo_validation)
             can    == cm_can_store_transaction(
                           tx, StepDependencies # {},
                           collect_colliding_transactions(collision_manager, tx),
                           storage)
         IN  /\ ~v.ok => e = "Database"
             /\ (v.ok /\ black # "none") => e = black
             /\ (v.ok /\ black = "none" /\ blob # "none") => e = blob
             /\ (v.ok /\ black = "none" /\ blob = "none" /\ inputs # "none")
                  => e = inputs
             /\ (v.ok /\ black = "none" /\ blob = "none" /\ inputs = "none"
                       /\ can # "none")
                  => (e = "Collided" /\ last'.reason = can)
             /\ (v.ok /\ black = "none" /\ blob = "none" /\ inputs = "none"
                       /\ can = "none")
                  => \E keys \in SeqsOf(StepColliding) :
                        LET avail == check_pool_size_available(
                                         Self, Config, tx, keys, StepDependencies)
                        IN  IF avail.err # "none" THEN e = avail.err
                            ELSE e \notin CheckErrors
             /\ e \in CheckErrors => poolVars' = poolVars]_vars

\* An insert was refused as Collided for a transaction that also exceeds the
\* limits of the pool and passes the checks before the collision policy.
C29_Witness ==
    /\ InsertFailed
    /\ last.err = "Collided"
    /\ ExceedsLimits(TxUniverse[last.tx])
    /\ check_blacklisting(Config.black_list, TxUniverse[last.tx]) = "none"

\* The insert of this step succeeds for a transaction that collides with no
\* resident and that the three totals of the pool have room for.
UnderLimitsStep ==
    /\ InsertOkStep
    /\ StepColliding = {}
    /\ current_gas + StepTx.max_gas <= Config.pool_limits.max_gas
    /\ current_bytes_size + StepTx.metered_bytes_size <= Config.pool_limits.max_bytes_size
    /\ count(storage) + 1 <= Config.pool_limits.max_txs

\* The residents in the priority structure of the selection algorithm s.
InSelection(s) == Range(s.executable_transactions_sorted_tip_gas_ratio)

\* C30 as stated: such an insert returns an empty removed list and every
\* resident stays resident with the same parents, the same children and the
\* same selection membership.
C30_NoEvictionUnderLimits_Original ==
    [][UnderLimitsStep =>
         /\ last'.removed = << >>
         /\ \A i \in Residents :
               /\ i \in Residents'
               /\ storage'[i].transaction = storage[i].transaction
               /\ storage'[i].parents = storage[i].parents
               /\ storage'[i].children = storage[i].children
               /\ (i \in InSelection(selection_algorithm)')
                     <=> (i \in InSelection(selection_algorithm))]_vars

\* C30: such an insert returns an empty removed list and every resident
\* stays resident with the same parents and the same selection membership;
\* its children are the same, with the index of the new transaction added
\* if the resident is one of the dependencies of the new transaction.
C30_NoEvictionUnderLimits ==
    [][UnderLimitsStep =>
         /\ last'.removed = << >>
         /\ \A i \in Residents :
               /\ i \in Residents'
               /\ storage'[i].transaction = storage[i].transaction
               /\ storage'[i].parents = storage[i].parents
               /\ storage'[i].children =
                     storage[i].children \cup
                        (IF i \in StepDependencies
                         THEN {tx_id_to_storage_id'[last'.tx]} ELSE {})
               /\ tx_id_to_storage_id'[last'.tx] \notin Residents
               /\ (i \in InSelection(selection_algorithm)')
                     <=> (i \in InSelection(selection_algorithm))]_vars

\* An insert under the limits has stored a transaction with a resident
\* parent beside a resident that is not its parent.
C30_Witness ==
    /\ InsertOk
    /\ last.removed = << >>
    /\ last.colliding = {}
    /\ current_gas <= Config.pool_limits.max_gas
    /\ current_bytes_size <= Config.pool_limits.max_bytes_size
    /\ \E n \in Residents :
          /\ storage[n].transaction.id = last.tx
          /\ storage[n].parents # {}
          /\ \E m \in Residents \ {n} : m \notin storage[n].parents

\* Admitting the transaction of this step to the residents that are left
\* once the residents in gone are removed keeps the three totals, summed over
\* the residents themselves, within the limits.
ActualFits(gone) ==
    LET kept == Residents \ gone IN
    /\ SumOver(kept, [i \in kept |-> storage[i].transaction.max_gas])
           + StepTx.max_gas <= Config.pool_limits.max_gas
    /\ SumOver(kept, [i \in kept |-> storage[i].transaction.metered_bytes_size])
           + StepTx.metered_bytes_size <= Config.pool_limits.max_bytes_size
    /\ Cardinality(kept) + 1 <= Config.pool_limits.max_txs

\* The colliding subtrees and the subtrees of the n worst subtree roots.
GoneWith(n) ==
    LET roots == get_worst_ratio_tip_gas_subtree_roots(storage)
        heads == StepColliding \cup {roots[k] : k \in 1..n}
    IN  heads \cup Descendants(storage, heads)

\* The non-colliding roots among the n worst subtree roots.
WorstRoots(n) ==
    {get_worst_ratio_tip_gas_subtree_roots(storage)[k] : k \in 1..n} \ StepColliding

\* C31: minimal eviction.  When admitting the transaction to the residents
\* exceeds a limit, the non-colliding residents a successful insert evicts
\* are those of the shortest prefix of the worst-ratio subtree roots whose
\* removal, with that of the colliding subtrees, brings the totals of the
\* residents within the limits.
C31_MinimalEviction ==
    [][(InsertOkStep /\ ~ActualFits({})) =>
         \E n \in 0..Len(get_worst_ratio_tip_gas_subtree_roots(storage)) :
            /\ ActualFits(GoneWith(n))
            /\ \A m \in 0..(n - 1) : ~ActualFits(GoneWith(m))
            /\ Range(last'.to_remove) \ StepColliding = WorstRoots(n)]_vars

\* The gas gather_best_txs had left when it returned in this step.
FinalGasLeft ==
    IF last'.gathered = << >> THEN Config.max_block_gas
    ELSE last'.gas_after[Len(last'.gathered)]

\* C32: exhaustive batch.  When gather_best_txs returns within
\* extract_transactions_for_block with gas left, no resident outside the
\* result has all its parents in the result or absent and a max_gas of at
\* most the gas left.
C32_ExhaustiveBatch ==
    [][(ExtractStep /\ FinalGasLeft > 0) =>
         \A i \in Residents \ Range(last'.gathered) :
            ~(/\ \A q \in storage[i].parents : q \in Range(last'.gathered)
              /\ storage[i].transaction.max_gas <= FinalGasLeft)]_vars

GatherBodyAgreesWithLoop ==
    last.op = "gathered" =>
        last.result = gather_best_txs(selection_algorithm, last.max_gas,
                                      last.storage, last.order).result

StepAncestors == StepDependencies \cup Ancestors(storage, StepDependencies)

\* C34: dependencies survive the insert.  An insert that has passed its
\* checks removes no ancestor of its transaction, neither as a colliding
\* subtree nor as an evicted one, and after a successful insert every
\* dependency and every ancestor of the transaction is resident as before.
C34_DependenciesSurvive ==
    [][InsertStep =>
         /\ last'.err \notin CheckErrors =>
               LET heads == Range(last'.to_remove) \cup last'.colliding
               IN  (heads \cup Descendants(storage, heads)) \cap StepAncestors = {}
         /\ last'.err = "none" =>
               \A a \in StepAncestors :
                  /\ a \in Residents'
                  /\ storage'[a].transaction = storage[a].transaction
                  /\ storage[a].transaction.id \notin Range(last'.removed)]_vars

\* A transaction with two resident parents was admitted to a pool that holds
\* a resident beside them.
C34_Witness ==
    /\ InsertOk
    /\ \E n \in Residents :
          /\ storage[n].transaction.id = last.tx
          /\ Cardinality(storage[n].parents) = 2
          /\ Residents \ ({n} \cup storage[n].parents) # {}

\* C35: the claims of the newcomer are registered last.  After a successful
\* insert every CollisionKey the new transaction claims, the keys a displaced
\* resident held among them, maps to the storage index of the new
\* transaction, and the other keys of the removed transactions are free.
C35_NewcomerClaimsLast ==
    [][InsertOkStep =>
         /\ \A k \in Claims(StepTx) :
               /\ k \in DOMAIN collision_manager'
               /\ collision_manager'[k] = tx_id_to_storage_id'[last'.tx]
         /\ \A k \in DOMAIN collision_manager \ Claims(StepTx) :
               (collision_manager[k] \in Residents
                  /\ storage[collision_manager[k]].transaction.id \in Range(last'.removed))
               => k \notin DOMAIN collision_manager']_vars

\* A successful insert has removed several transactions and holds a key
\* that one of them held.
C35_Witness ==
    /\ InsertOk
    /\ last.colliding # {}
    /\ Len(last.removed) >= 2
    /\ \E k \in Claims(TxUniverse[last.tx]) :
          \E r \in Range(last.removed) :
             /\ k \in Claims(TxUniverse[r])
             /\ k \in DOMAIN collision_manager
             /\ collision_manager[k] = tx_id_to_storage_id[last.tx]

\* ---------------------------------------------------------------------
\* The arithmetic of the ratios: the selection key of a stored transaction
\* and the ratio of a newcomer that has to make space, over tips and gas
\* amounts that include zero.
\* ---------------------------------------------------------------------

MaxArith == 3

ArithValues == 0 .. MaxArith

ArithEntry(tip, max_gas, creation_instant) ==
    [transaction |-> PoolTransaction(1, tip, max_gas, 1, {Coin(1)}, 0, "alice"),
     creation_instant |-> creation_instant]

InitArith ==
    /\ storage = new.storage
    /\ collision_manager = new.collision_manager
    /\ selection_algorithm = new.selection_algorithm
    /\ tx_id_to_storage_id = new.tx_id_to_storage_id
    /\ current_gas = new.current_gas
    /\ current_bytes_size = new.current_bytes_size
    /\ now = 0
    /\ \E tip \in ArithValues, max_gas \in ArithValues, instant \in ArithValues :
          last = [op |-> "arrived", tip |-> tip, max_gas |-> max_gas,
                  instant |-> instant, ratio |-> <<0, 1>>]

\* new_executable_transaction: the key of an executable transaction.
StoreKey ==
    /\ last.op = "arrived"
    /\ \E r \in {on_stored_transaction_inner(EmptySelection,
                     ArithEntry(last.tip, last.max_gas, last.instant))} :
          last' = [last EXCEPT !.op = "keyed", !.ratio = r.key.ratio]
    /\ UNCHANGED <<poolVars, now>>

\* check_pool_size_available: the ratio of a newcomer without dependencies
\* that finds the pool full.
CurrentRatio ==
    /\ last.op = "arrived"
    /\ \E r \in {RatioNew(last.tip, last.max_gas)} :
          last' = [last EXCEPT !.op = "compared", !.ratio = r]
    /\ UNCHANGED <<poolVars, now>>

NextArith == StoreKey \/ CurrentRatio

SpecArith == InitArith /\ [][NextArith]_vars

\* C36: no arithmetic failure: for every tip and max_gas, max_gas = 0
\* included, the construction of the selection key and of the ratio in
\* check_pool_size_available never fails by a division by zero.
C36_NoArithmeticFailure ==
    last.op \in {"keyed", "compared"} => last.ratio # RatioPanic

\* ---------------------------------------------------------------------
\* The peer report behaviour: the swarm reports connections, the behaviour
\* queues events and hands them out on poll.
\* ---------------------------------------------------------------------

MaxSwarmEvents == 4
MaxEstablished == 2

PeerIds == {"p1", "p2"}

PeerConnected(peer_id, initial_connection) ==
    [type |-> "PeerConnected", peer_id |-> peer_id,
     initial_connection |-> initial_connection]

PeerDisconnected(peer_id) == [type |-> "PeerDisconnected", peer_id |-> peer_id]

PerformDecay == [type |-> "PerformDecay"]

FromSwarm_ConnectionEstablished(peer_id, other_established) ==
    [type |-> "ConnectionEstablished", peer_id |-> peer_id,
     count |-> other_established]

FromSwarm_ConnectionClosed(peer_id, remaining_established) ==
    [type |-> "ConnectionClosed", peer_id |-> peer_id,
     count |-> remaining_established]

FromSwarm_Other == [type |-> "Other", peer_id |-> "p1", count |-> 0]

\* Behaviour::new
NewBehaviour == [pending_events |-> << >>]

\* Mutant of on_swarm_event: every established connection is reported as
\* the initial one.
on_swarm_event_AlwaysInitial(pending_events, event) ==
    IF event.type = "ConnectionEstablished"
    THEN Append(pending_events, PeerConnected(event.peer_id, TRUE))
    ELSE IF event.type = "ConnectionClosed"
    THEN IF event.count = 0
         THEN Append(pending_events, PeerDisconnected(event.peer_id))
         ELSE pending_events
    ELSE pending_events

\* on_swarm_event: the pending events after the swarm's event.
on_swarm_event(pending_events, event) ==
    IF event.type = "ConnectionEstablished"
    THEN Append(pending_events, PeerConnected(event.peer_id, event.count = 0))
    ELSE IF event.type = "ConnectionClosed"
    THEN IF event.count = 0
         THEN Append(pending_events, PeerDisconnected(event.peer_id))
         ELSE pending_events
    ELSE pending_events

Poll_Ready(event) == [poll |-> "Ready", event |-> event]

Poll_Pending == [poll |-> "Pending"]

\* Mutant of poll: the decay interval is asked before the queue.
poll_DecayFirst(pending_events, tick_ready) ==
    IF tick_ready
    THEN [pending_events |-> pending_events, result |-> Poll_Ready(PerformDecay)]
    ELSE IF pending_events # << >>
    THEN [pending_events |-> Tail(pending_events),
          result |-> Poll_Ready(Head(pending_events))]
    ELSE [pending_events |-> pending_events, result |-> Poll_Pending]

\* poll; tick_ready is what decay_interval.poll_tick(cx).is_ready() would
\* answer.
poll(pending_events, tick_ready) ==
    IF pending_events # << >>
    THEN [pending_events |-> Tail(pending_events),
          result |-> Poll_Ready(Head(pending_events))]
    ELSE IF tick_ready
    THEN [pending_events |-> pending_events, result |-> Poll_Ready(PerformDecay)]
    ELSE [pending_events |-> pending_events, result |-> Poll_Pending]

\* The state of the peer report model, carried in `last`: the swarm's
\* count of established connections per peer, the behaviour's queue, what
\* the behaviour queued so far and what poll handed out so far.
InitPeerReport ==
    /\ storage = new.storage
    /\ collision_manager = new.collision_manager
    /\ selection_algorithm = new.selection_algorithm
    /\ tx_id_to_storage_id = new.tx_id_to_storage_id
    /\ current_gas = new.current_gas
    /\ current_bytes_size = new.current_bytes_size
    /\ now = 0
    /\ last = [op |-> "new", event |-> FromSwarm_Other,
               established |-> [p \in PeerIds |-> 0],
               pending_events |-> NewBehaviour.pending_events,
               observed |-> << >>, delivered |-> << >>,
               tick_ready |-> FALSE, result |-> Poll_Pending]

\* The behaviour handles one event of the swarm.
Observe(event, established) ==
    \E r \in {on_swarm_event(last.pending_events, event)} :
       /\ Len(last.observed) + (Len(r) - Len(last.pending_events)) <= MaxSwarmEvents
       /\ last' = [last EXCEPT !.op = "swarm", !.event = event,
                      !.established = established,
                      !.pending_events = r,
                      !.observed = @ \o SubSeq(r, Len(last.pending_events) + 1, Len(r))]
       /\ UNCHANGED <<poolVars, now>>

ConnectionEstablished ==
    \E p \in PeerIds :
       /\ last.established[p] < MaxEstablished
       /\ Observe(FromSwarm_ConnectionEstablished(p, last.established[p]),
                  [last.established EXCEPT ![p] = @ + 1])

ConnectionClosed ==
    \E p \in PeerIds :
       /\ last.established[p] > 0
       /\ Observe(FromSwarm_ConnectionClosed(p, last.established[p] - 1),
                  [last.established EXCEPT ![p] = @ - 1])

\* Any other event of the swarm: the `_ => {}` arm.
OtherSwarmEvent == Observe(FromSwarm_Other, last.established)

SwarmPoll ==
    \E tick_ready \in BOOLEAN :
       \E r \in {poll(last.pending_events, tick_ready)} :
          /\ last' = [last EXCEPT !.op = "poll", !.tick_ready = tick_ready,
                         !.pending_events = r.pending_events,
                         !.result = r.result,
                         !.delivered =
                             IF r.result.poll = "Ready"
                                /\ r.result.event # PerformDecay
                             THEN Append(@, r.result.event) ELSE @]
          /\ UNCHANGED <<poolVars, now>>

NextPeerReport ==
    ConnectionEstablished \/ ConnectionClosed \/ OtherSwarmEvent \/ SwarmPoll

SpecPeerReport == InitPeerReport /\ [][NextPeerReport]_vars

\* The events about peer p that open or close its presence, in the order
\* in which the behaviour queued them.
PresenceEvents(observed, p) ==
    SelectSeq(observed, LAMBDA e :
        /\ e.peer_id = p
        /\ \/ e.type = "PeerDisconnected"
           \/ (e.type = "PeerConnected" /\ e.initial_connection))

Alternates(events) ==
    \A i \in 1 .. Len(events) :
       events[i].type = IF i % 2 = 1 THEN "PeerConnected" ELSE "PeerDisconnected"

SwarmStep == last'.op = "swarm" /\ last' # last

\* C37: a ConnectionEstablished queues PeerConnected with
\* initial_connection true exactly when other_established = 0, a
\* ConnectionClosed queues PeerDisconnected exactly when
\* remaining_established = 0, nothing else is queued, and for each peer the
\* PeerConnected(initial_connection = true) and PeerDisconnected events
\* alternate, starting with PeerConnected.
C37_PeerReportEvents ==
    [][SwarmStep =>
         /\ (last'.event.type = "ConnectionEstablished" =>
                last'.pending_events = Append(last.pending_events,
                    PeerConnected(last'.event.peer_id, last'.event.count = 0)))
         /\ (last'.event.type = "ConnectionClosed" /\ last'.event.count = 0 =>
                last'.pending_events = Append(last.pending_events,
                    PeerDisconnected(last'.event.peer_id)))
         /\ (last'.event.type = "ConnectionClosed" /\ last'.event.count # 0 =>
                last'.pending_events = last.pending_events)
         /\ (last'.event.type = "Other" =>
                last'.pending_events = last.pending_events)
         /\ \A p \in PeerIds : Alternates(PresenceEvents(last'.observed, p))]_vars

\* A peer connected twice, lost both connections and connected again.
C37_Witness ==
    /\ last.op = "swarm"
    /\ \E p \in PeerIds :
          /\ Len(PresenceEvents(last.observed, p)) = 3
          /\ \E i \in 1 .. Len(last.observed) :
                last.observed[i] = PeerConnected(p, FALSE)

PollStep == last'.op = "poll"

\* C38: poll hands out the queued events one per call, in the order in
\* which they were queued and each exactly once; PerformDecay is handed out
\* only when the queue is empty, and Pending is returned only when the
\* queue is empty and the decay interval has not ticked.
C38_DeliveryOrder ==
    [][/\ last'.observed = last'.delivered \o last'.pending_events
       /\ (PollStep =>
             /\ (last.pending_events # << >> =>
                    /\ last'.result = Poll_Ready(Head(last.pending_events))
                    /\ last'.pending_events = Tail(last.pending_events)
                    /\ last'.delivered = Append(last.delivered, Head(last.pending_events)))
             /\ (last'.result = Poll_Ready(PerformDecay) =>
                    last.pending_events = << >> /\ last'.tick_ready)
             /\ (last'.result = Poll_Pending =>
                    last.pending_events = << >> /\ ~last'.tick_ready)
             /\ (last.pending_events = << >> =>
                    /\ last'.pending_events = << >>
                    /\ last'.delivered = last.delivered))]_vars

\* Two events of different peers were handed out in the order of their
\* arrival while the interval had ticked, and a third one waits.
C38_Witness ==
    /\ last.op = "poll"
    /\ last.tick_ready
    /\ Len(last.delivered) = 2
    /\ last.delivered[1].peer_id # last.delivered[2].peer_id
    /\ last.pending_events # << >>
    /\ last.result = Poll_Ready(last.delivered[2])

\* ---------------------------------------------------------------------
\* message_status: the status of a message, from the two lookups of the
\* database.
\* ---------------------------------------------------------------------

Nonces == {1, 2}

Ok(value) == [ok |-> TRUE, value |-> value]

Err(error) == [ok |-> FALSE, value |-> error]

\* What a lookup of the database can answer for a nonce.
LookupResults(error) == {Ok(TRUE), Ok(FALSE), Err(error)}

\* The databases: for every nonce the answers of message_is_spent and of
\* message_exists.
Databases ==
    [Nonces -> [message_is_spent : LookupResults("is_spent failed"),
                message_exists : LookupResults("exists failed")]]

message_is_spent(database, nonce) == database[nonce].message_is_spent

message_exists(database, nonce) == database[nonce].message_exists

\* Mutant of message_status: the existence is asked first.
message_status_ExistsFirst(database, message_nonce) ==
    LET exists == message_exists(database, message_nonce)
        spent  == message_is_spent(database, message_nonce)
    IN  IF ~exists.ok
        THEN [result |-> exists, consulted |-> <<"message_exists">>]
        ELSE IF exists.value
        THEN [result |-> Ok("unspent"), consulted |-> <<"message_exists">>]
        ELSE IF ~spent.ok
        THEN [result |-> spent,
              consulted |-> <<"message_exists", "message_is_spent">>]
        ELSE [result |-> Ok(IF spent.value THEN "spent" ELSE "not_found"),
              consulted |-> <<"message_exists", "message_is_spent">>]

\* message_status: the result and the lookups it made, in order.
message_status(database, message_nonce) ==
    LET spent  == message_is_spent(database, message_nonce)
        exists == message_exists(database, message_nonce)
    IN  IF ~spent.ok
        THEN [result |-> spent, consulted |-> <<"message_is_spent">>]
        ELSE IF spent.value
        THEN [result |-> Ok("spent"), consulted |-> <<"message_is_spent">>]
        ELSE IF ~exists.ok
        THEN [result |-> exists,
              consulted |-> <<"message_is_spent", "message_exists">>]
        ELSE [result |-> Ok(IF exists.value THEN "unspent" ELSE "not_found"),
              consulted |-> <<"message_is_spent", "message_exists">>]

InitMessageStatus ==
    /\ storage = new.storage
    /\ collision_manager = new.collision_manager
    /\ selection_algorithm = new.selection_algorithm
    /\ tx_id_to_storage_id = new.tx_id_to_storage_id
    /\ current_gas = new.current_gas
    /\ current_bytes_size = new.current_bytes_size
    /\ now = 0
    /\ \E database \in Databases, nonce \in Nonces :
          last = [op |-> "query", database |-> database, nonce |-> nonce,
                  result |-> Ok("not_found"), consulted |-> << >>]

MessageStatus ==
    /\ last.op = "query"
    /\ \E r \in {message_status(last.database, last.nonce)} :
          last' = [last EXCEPT !.op = "status", !.result = r.result,
                                !.consulted = r.consulted]
    /\ UNCHANGED <<poolVars, now>>

NextMessageStatus == MessageStatus

SpecMessageStatus == InitMessageStatus /\ [][NextMessageStatus]_vars

\* C39: message_status returns spent whenever message_is_spent is true,
\* whether or not the message exists, otherwise unspent when message_exists
\* is true, otherwise not_found; an error of either lookup is returned as
\* the error, and message_exists is not consulted when the message is
\* spent.
C39_MessageStatus ==
    last.op = "status" =>
       LET spent  == last.database[last.nonce].message_is_spent
           exists == last.database[last.nonce].message_exists
       IN  /\ (spent = Ok(TRUE) =>
                  /\ last.result = Ok("spent")
                  /\ last.consulted = <<"message_is_spent">>)
           /\ (~spent.ok =>
                  /\ last.result = spent
                  /\ last.consulted = <<"message_is_spent">>)
           /\ (spent = Ok(FALSE) =>
                  /\ last.consulted = <<"message_is_spent", "message_exists">>
                  /\ (exists = Ok(TRUE) => last.result = Ok("unspent"))
                  /\ (exists = Ok(FALSE) => last.result = Ok("not_found"))
                  /\ (~exists.ok => last.result = exists))

\* A spent message whose existence lookup would fail is reported spent.
C39_Witness ==
    /\ last.op = "status"
    /\ last.database[last.nonce].message_is_spent = Ok(TRUE)
    /\ ~last.database[last.nonce].message_exists.ok
    /\ last.result = Ok("spent")

\* ---------------------------------------------------------------------
\* Amount: the balance of coins and messages, in unsigned integers of
\* U64Bits bits.
\* ---------------------------------------------------------------------

U64Bits == 2

U64_MAX == 2 ^ U64Bits - 1

Amount(coins, messages) == [coins |-> coins, messages |-> messages]

Amounts == [coins : 0 .. U64_MAX, messages : 0 .. U64_MAX]

\* u64::checked_add: None on overflow.
checked_add(a, b) ==
    IF a + b > U64_MAX THEN [some |-> FALSE, value |-> 0]
    ELSE [some |-> TRUE, value |-> a + b]

\* Amount::saturating_add: `expect` panics on None.
saturating_add(self, other) ==
    LET coins    == checked_add(self.coins, other.coins)
        messages == checked_add(self.messages, other.messages)
    IN  IF ~coins.some \/ ~messages.some
        THEN [panic |-> "TODO[RC]: balance too large", amount |-> self]
        ELSE [panic |-> "none", amount |-> Amount(coins.value, messages.value)]

InitAmount ==
    /\ storage = new.storage
    /\ collision_manager = new.collision_manager
    /\ selection_algorithm = new.selection_algorithm
    /\ tx_id_to_storage_id = new.tx_id_to_storage_id
    /\ current_gas = new.current_gas
    /\ current_bytes_size = new.current_bytes_size
    /\ now = 0
    /\ \E a \in Amounts, b \in Amounts :
          last = [op |-> "amounts", self |-> a, other |-> b,
                  panic |-> "none", amount |-> a]

SaturatingAdd ==
    /\ last.op = "amounts"
    /\ \E r \in {saturating_add(last.self, last.other)} :
          last' = [last EXCEPT !.op = "added", !.panic = r.panic,
                                !.amount = r.amount]
    /\ UNCHANGED <<poolVars, now>>

NextAmount == SaturatingAdd

SpecAmount == InitAmount /\ [][NextAmount]_vars

Min(a, b) == IF a < b THEN a ELSE b

\* C40: a.saturating_add(b) never aborts and returns the Amount whose
\* coins are min(a.coins + b.coins, u64::MAX) and whose messages are
\* min(a.messages + b.messages, u64::MAX).
C40_SaturatingAdd ==
    last.op = "added" =>
       /\ last.panic = "none"
       /\ last.amount = Amount(Min(last.self.coins + last.other.coins, U64_MAX),
                               Min(last.self.messages + last.other.messages, U64_MAX))

====
